------------------------- MODULE RunLifecycleProofs -------------------------
(***************************************************************************)
(* What the run lifecycle guarantees for every set of runs, every cap and  *)
(* every combination of faults the statement does not exclude.             *)
(*   TypeOK               types,                                           *)
(*   HistoryInv           rows lie in the past, the runner's rows are as   *)
(*                        it wrote them: what the listing shows,           *)
(*   RecordedFirst        the placeholder comes before the run set,        *)
(*   RequestIsYoung       a request is over before its view is old: who    *)
(*                        may drop a view, and when.                       *)
(***************************************************************************)
EXTENDS RunLifecycle, WellFoundedInduction, TLAPS

Statuses == Terminal \cup {"RUNNING"}

-----------------------------------------------------------------------------
(* The rows of dq_validation_runs.                                         *)

\* v is what an UPDATE made of w: only a RUNNING row changes, in its status.
Restates(w, v) ==
  /\ v.run = w.run /\ v.by = w.by /\ v.created = w.created
  /\ w.status # "RUNNING" => v = w

\* A step that updates rows, and neither inserts nor deletes one.
RowsRestated ==
  /\ rows' \subseteq Row
  /\ \A w \in rows : \E v \in rows' : Restates(w, v)
  /\ \A v \in rows' : \E w \in rows : Restates(w, v)

(* update_run_status rewrites RUNNING rows in place. *)
LEMMA UpdateRestates ==
  ASSUME TypeOK,
         NEW D \in SUBSET Runs, NEW verdict \in [D -> Statuses],
         UpdateRunStatus(verdict)
  PROVE  RowsRestated
PROOF
<1>1. rows \subseteq Row
  BY DEF TypeOK
<1>2. CASE rows' = rows
  BY <1>1, <1>2 DEF RowsRestated, Restates
<1>3. CASE rows' = Marked(verdict)
  <2> DEFINE image(w) == IF w.run \in DOMAIN verdict /\ w.status = "RUNNING"
                           THEN [w EXCEPT !.status = verdict[w.run]] ELSE w
  <2>1. \A w \in rows : image(w) \in Row /\ Restates(w, image(w))
    BY <1>1 DEF Row, Statuses, Restates
  <2>2. rows' = {image(w) : w \in rows}
    BY <1>3 DEF Marked
  <2> HIDE DEF image
  <2>3. QED
    BY <2>1, <2>2 DEF RowsRestated
<1>4. QED
  BY <1>2, <1>3 DEF UpdateRunStatus

(* What the Jobs API, the age of a row and a cancellation may write. *)
LEMMA VerdictType ==
  /\ \A j : JobVerdict(j) \in Statuses
  /\ \A r, b : Verdict(r, b) \in Statuses
PROOF
  BY DEF JobVerdict, Verdict, Statuses, Terminal

(* Every route and clean-up that rewrites rows only restates them. *)
LEMMA WritersRestate ==
  ASSUME TypeOK
  PROVE  /\ \A r \in Runs : GetDryRunStatus(r) => RowsRestated
         /\ \A r \in Runs : MarkCanceled(r) => RowsRestated
         /\ ListValidationRuns => RowsRestated
         /\ SweepStaleTmpViews => RowsRestated
PROOF
<1>1. rows' = rows => RowsRestated
  BY DEF TypeOK, RowsRestated, Restates
<1>2. ASSUME NEW r \in Runs, GetDryRunStatus(r) PROVE RowsRestated
  <2> DEFINE verdict == [q \in {r} |-> JobVerdict(job[r])]
  <2>1. verdict \in [{r} -> Statuses]
    BY VerdictType
  <2>2. rows' = rows \/ UpdateRunStatus(verdict)
    BY <1>2 DEF GetDryRunStatus
  <2> HIDE DEF verdict
  <2>3. QED
    BY <1>1, <2>1, <2>2, UpdateRestates
<1>3. ASSUME NEW r \in Runs, MarkCanceled(r) PROVE RowsRestated
  <2> DEFINE verdict == [q \in {r} |-> "CANCELED"]
  <2>1. verdict \in [{r} -> Statuses]
    BY DEF Statuses, Terminal
  <2>2. UpdateRunStatus(verdict)
    BY <1>3 DEF MarkCanceled
  <2> HIDE DEF verdict
  <2>3. QED
    BY <2>1, <2>2, UpdateRestates
<1>4. ASSUME ListValidationRuns PROVE RowsRestated
  <2>1. PICK silent : UpdateRunStatus([r \in Pending |-> Verdict(r, r \in Lookups \ silent)])
    BY <1>4 DEF ListValidationRuns
  <2> DEFINE verdict == [r \in Pending |-> Verdict(r, r \in Lookups \ silent)]
  <2>2. verdict \in [Pending -> Statuses]
    BY VerdictType
  <2>3. Pending \in SUBSET Runs
    BY DEF Pending
  <2>4. UpdateRunStatus(verdict)
    BY <2>1
  <2> HIDE DEF verdict
  <2>5. QED
    BY <2>2, <2>3, <2>4, UpdateRestates
<1>5. ASSUME SweepStaleTmpViews PROVE RowsRestated
  <2>1. PICK silent : UpdateRunStatus([r \in Abandoned(silent) |-> JobVerdict(job[r])])
    BY <1>5 DEF SweepStaleTmpViews
  <2> DEFINE verdict == [r \in Abandoned(silent) |-> JobVerdict(job[r])]
  <2>2. verdict \in [Abandoned(silent) -> Statuses]
    BY VerdictType
  <2>3. Abandoned(silent) \in SUBSET Runs
    BY DEF TypeOK, Abandoned, Newest, RunningRows, Row
  <2>4. UpdateRunStatus(verdict)
    BY <2>1
  <2> HIDE DEF verdict
  <2>5. QED
    BY <2>2, <2>3, <2>4, UpdateRestates
<1>6. QED
  BY <1>2, <1>3, <1>4, <1>5

-----------------------------------------------------------------------------
(* Type correctness.                                                       *)

(* Dropping views keeps their type. *)
LEMMA DropViewsType ==
  ASSUME NEW S, DropViews(S), view \in [Runs -> BOOLEAN]
  PROVE  view' \in [Runs -> BOOLEAN]
PROOF
  BY DEF DropViews

(* A request step keeps every variable's type. *)
LEMMA RequestType ==
  ASSUME TypeOK, NEW r \in Runs, Request(r) \/ AppCrash(r)
  PROVE  TypeOK'
PROOF
<1> USE DEF TypeOK, MidRequest, Active, Ended, request
<1>1. CASE CreateView(r)
  BY <1>1 DEF CreateView, May
<1>2. CASE StageConfig(r) \/ SubmitRun(r)
  <2>1. CASE StageConfig(r)
    <3>1. view' \in [Runs -> BOOLEAN]
      BY <2>1, DropViewsType DEF StageConfig
    <3>2. staged' \in [Runs -> BOOLEAN]
      BY <2>1 DEF StageConfig
    <3>3. QED
      BY <2>1, <3>1, <3>2 DEF StageConfig
  <2>2. CASE SubmitRun(r)
    BY <2>2 DEF SubmitRun
  <2>3. QED
    BY <1>2, <2>1, <2>2
<1>3. CASE SubmitFails(r)
  <2>1. view' \in [Runs -> BOOLEAN]
    BY <1>3, DropViewsType DEF SubmitFails
  <2>2. staged' \in [Runs -> BOOLEAN]
    BY <1>3 DEF SubmitFails, May
  <2>3. QED
    BY <1>3, <2>1, <2>2 DEF SubmitFails
<1>4. CASE SubmitDirect(r)
  BY <1>4 DEF SubmitDirect
<1>5. CASE RecordDryrunStarted(r)
  <2>1. now' \in Nat
    BY <1>5 DEF RecordDryrunStarted
  <2>2. rows' \subseteq Row
    BY <1>5, <2>1 DEF RecordDryrunStarted, Row
  <2>3. QED
    BY <1>5, <2>1, <2>2 DEF RecordDryrunStarted
<1>6. CASE CreateRunSet(r)
  BY <1>6 DEF CreateRunSet, May
<1>7. CASE AddMember(r)
  BY <1>7 DEF AddMember
<1>8. CASE AddMemberFails(r)
  BY <1>8 DEF AddMemberFails, May
<1>9. CASE AppCrash(r)
  BY <1>9 DEF AppCrash
<1>10. QED
  BY <1>1, <1>2, <1>3, <1>4, <1>5, <1>6, <1>7, <1>8, <1>9 DEF Request

(* A step of the task runner or of its platform keeps every variable's type. *)
LEMMA RunnerType ==
  ASSUME TypeOK, NEW r \in Runs, Runner(r) \/ JobStops(r)
  PROVE  TypeOK'
PROOF
<1> USE DEF TypeOK, MidRequest, Active, Ended, request
<1>1. CASE JobStarts(r)
  BY <1>1 DEF JobStarts
<1>2. CASE AppendResult(r)
  <2>1. rows' \subseteq Row
    BY <1>2 DEF AppendResult, Row, Terminal
  <2>2. QED
    BY <1>2, <2>1 DEF AppendResult
<1>3. CASE PersistResult(r)
  BY <1>3 DEF PersistResult, RunnerExit, May
<1>4. CASE RunnerFails(r)
  <2>1. now' \in Nat
    BY <1>4 DEF RunnerFails
  <2>2. rows' \subseteq Row
    BY <1>4, <2>1 DEF RunnerFails, Row, Terminal
  <2>3. view' \in [Runs -> BOOLEAN] /\ staged' \in [Runs -> BOOLEAN]
    BY <1>4 DEF RunnerFails, RunnerExit, May
  <2>4. QED
    BY <1>4, <2>1, <2>2, <2>3 DEF RunnerFails
<1>5. CASE JobStops(r)
  BY <1>5 DEF JobStops
<1>6. QED
  BY <1>1, <1>2, <1>3, <1>4, <1>5 DEF Runner

(* A route that acts on one run keeps every variable's type. *)
LEMMA RouteType ==
  ASSUME TypeOK, NEW r \in Runs,
         GetDryRunStatus(r) \/ CancelDryRun(r) \/ MarkCanceled(r) \/ DropCompletedRunView(r)
  PROVE  TypeOK'
PROOF
<1> USE DEF TypeOK, request
<1>1. CASE GetDryRunStatus(r)
  <2>1. rows' \subseteq Row
    BY <1>1, WritersRestate DEF RowsRestated
  <2>2. view' \in [Runs -> BOOLEAN]
    BY <1>1, DropViewsType DEF GetDryRunStatus
  <2>3. QED
    BY <1>1, <2>1, <2>2 DEF GetDryRunStatus
<1>2. CASE CancelDryRun(r)
  BY <1>2 DEF CancelDryRun
<1>3. CASE MarkCanceled(r)
  <2>1. rows' \subseteq Row
    BY <1>3, WritersRestate DEF RowsRestated
  <2>2. QED
    BY <1>3, <2>1 DEF MarkCanceled
<1>4. CASE DropCompletedRunView(r)
  <2>1. view' \in [Runs -> BOOLEAN]
    BY <1>4, DropViewsType DEF DropCompletedRunView
  <2>2. QED
    BY <1>4, <2>1 DEF DropCompletedRunView
<1>5. QED
  BY <1>1, <1>2, <1>3, <1>4

(* The listing, the clean-up and time keep every variable's type. *)
LEMMA CleanUpType ==
  ASSUME TypeOK, ListValidationRuns \/ SweepStaleTmpViews \/ GcOrphanViews \/ HoursPass
  PROVE  TypeOK'
PROOF
<1> USE DEF TypeOK, request
<1>1. CASE ListValidationRuns
  <2>1. rows' \subseteq Row
    BY <1>1, WritersRestate DEF RowsRestated
  <2>2. QED
    BY <1>1, <2>1 DEF ListValidationRuns
<1>2. CASE SweepStaleTmpViews
  <2>1. rows' \subseteq Row
    BY <1>2, WritersRestate DEF RowsRestated
  <2>2. view' \in [Runs -> BOOLEAN]
    BY <1>2, DropViewsType DEF SweepStaleTmpViews
  <2>3. QED
    BY <1>2, <2>1, <2>2 DEF SweepStaleTmpViews
<1>3. CASE GcOrphanViews
  <2>1. view' \in [Runs -> BOOLEAN]
    BY <1>3, DropViewsType DEF GcOrphanViews
  <2>2. QED
    BY <1>3, <2>1 DEF GcOrphanViews
<1>4. CASE HoursPass
  BY <1>4 DEF HoursPass, Old
<1>5. QED
  BY <1>1, <1>2, <1>3, <1>4

(* Requests, views, jobs, rows and ages keep their types, whatever fails. *)
THEOREM RunTypeCorrect == Spec => []TypeOK
PROOF
<1>1. Init => TypeOK
  BY DEF Init, TypeOK, MidRequest, Old
<1>2. TypeOK /\ [Next]_vars => TypeOK'
  <2>1. SUFFICES ASSUME TypeOK, Next PROVE TypeOK'
    BY DEF TypeOK, vars
  <2>2. QED
    BY <2>1, RequestType, RunnerType, RouteType, CleanUpType DEF Next
<1>3. QED
  BY <1>1, <1>2, PTL DEF Spec

-----------------------------------------------------------------------------
(* What every step leaves behind.                                          *)

(* Only the request itself moves its place, its run set and its membership. *)
LEMMA OnlyRequestsMove ==
  ASSUME Next
  PROVE  (\E r \in Runs : Request(r) \/ AppCrash(r)) \/ UNCHANGED request
PROOF
  BY DEF Next, Runner, JobStarts, AppendResult, PersistResult, RunnerFails, JobStops,
         GetDryRunStatus, CancelDryRun, MarkCanceled, DropCompletedRunView,
         ListValidationRuns, SweepStaleTmpViews, GcOrphanViews, HoursPass

(* Rows are appended and restated, never deleted. *)
LEMMA RowsAreKept ==
  ASSUME TypeOK, Next
  PROVE  \A w \in rows : \E v \in rows' : Restates(w, v)
PROOF
<1>1. rows \subseteq rows' => \A w \in rows : \E v \in rows' : Restates(w, v)
  BY DEF Restates
<1>2. ASSUME NEW r \in Runs, Request(r) \/ AppCrash(r) PROVE rows \subseteq rows'
  BY <1>2 DEF Request, CreateView, StageConfig, SubmitRun, SubmitFails, SubmitDirect, RecordDryrunStarted,
              CreateRunSet, AddMember, AddMemberFails, AppCrash
<1>3. ASSUME NEW r \in Runs, Runner(r) \/ JobStops(r) PROVE rows \subseteq rows'
  BY <1>3 DEF Runner, JobStarts, AppendResult, PersistResult, RunnerFails, JobStops
<1>4. ASSUME NEW r \in Runs, CancelDryRun(r) \/ DropCompletedRunView(r) PROVE rows \subseteq rows'
  BY <1>4 DEF CancelDryRun, DropCompletedRunView
<1>5. GcOrphanViews \/ HoursPass => rows \subseteq rows'
  BY DEF GcOrphanViews, HoursPass
<1>6. RowsRestated => \A w \in rows : \E v \in rows' : Restates(w, v)
  BY DEF RowsRestated
<1>7. QED
  BY <1>1, <1>2, <1>3, <1>4, <1>5, <1>6, WritersRestate DEF Next

(* A run keeps its rows, and a terminal row stays terminal. *)
LEMMA RunKeepsRows ==
  ASSUME TypeOK, Next, NEW r \in Runs
  PROVE  /\ RowsOf(r) # {} => RowsOf(r)' # {}
         /\ HasTerminalRow(r) => HasTerminalRow(r)'
PROOF
  BY RowsAreKept DEF RowsOf, HasTerminalRow, Restates

-----------------------------------------------------------------------------
(* The run set of a run.                                                   *)

(* NoEmptyRunSet is inductive: while the roll-back of a failed add_member
   works, a run set that was minted gets its member or is deleted again, unless
   the application dies in between (run_binding). *)
THEOREM RunSetsAreNotEmpty ==
  ASSUME "rollback" \notin FaultKinds
  PROVE  Spec => []NoEmptyRunSet
PROOF
<1>1. Init => NoEmptyRunSet
  BY DEF Init, NoEmptyRunSet
<1>2. TypeOK /\ NoEmptyRunSet /\ [Next]_vars => NoEmptyRunSet'
  <2> SUFFICES ASSUME TypeOK, NoEmptyRunSet, [Next]_vars PROVE NoEmptyRunSet'
    OBVIOUS
  <2>1. CASE UNCHANGED request
    BY <2>1 DEF NoEmptyRunSet, request
  <2>2. ASSUME NEW r \in Runs, Request(r) PROVE NoEmptyRunSet'
    <3> USE DEF TypeOK, NoEmptyRunSet
    <3>1. CASE CreateView(r) \/ StageConfig(r) \/ SubmitRun(r) \/ SubmitFails(r) \/ SubmitDirect(r) \/ RecordDryrunStarted(r)
      BY <3>1 DEF CreateView, StageConfig, Prepared, SubmitRun, SubmitFails, SubmitDirect, RecordDryrunStarted
    <3>2. CASE CreateRunSet(r)
      BY <3>2 DEF CreateRunSet, May
    <3>3. CASE AddMember(r)
      BY <3>3 DEF AddMember
    <3>4. CASE AddMemberFails(r)
      BY <3>4 DEF AddMemberFails, May
    <3>5. QED
      BY <2>2, <3>1, <3>2, <3>3, <3>4 DEF Request
  <2>3. ASSUME NEW r \in Runs, AppCrash(r) PROVE NoEmptyRunSet'
    BY <2>3 DEF TypeOK, NoEmptyRunSet, AppCrash
  <2>4. QED
    BY <2>1, <2>2, <2>3, OnlyRequestsMove DEF vars, request
<1>3. QED
  BY <1>1, <1>2, RunTypeCorrect, PTL DEF Spec

\* The request that is about to join a run set has its placeholder.
RecordedFirst ==
  \A r \in Runs : pc[r] \in {"recorded", "minted"} => RowsOf(r) # {}

(* While the placeholder INSERT does not fail, a run-set member points at an
   existing validation row, through every crash, failure and clean-up: the
   order of run_binding (placeholder, run set, member), and rows that are never
   deleted. *)
THEOREM MembersHaveRows ==
  ASSUME "placeholder" \notin FaultKinds
  PROVE  Spec => []MemberHasRow
PROOF
<1> DEFINE IInv == RecordedFirst /\ MemberHasRow
<1>1. Init => IInv
  BY DEF Init, RecordedFirst, MemberHasRow
<1>2. TypeOK /\ IInv /\ [Next]_vars => IInv'
  <2> SUFFICES ASSUME TypeOK, IInv, Next PROVE IInv'
    BY DEF vars, RecordedFirst, MemberHasRow, RowsOf
  <2>1. \A r \in Runs : RowsOf(r) # {} => RowsOf(r)' # {}
    BY RunKeepsRows
  <2>2. CASE UNCHANGED request
    BY <2>1, <2>2 DEF RecordedFirst, MemberHasRow, request
  <2>3. ASSUME NEW r \in Runs, Request(r) \/ AppCrash(r) PROVE IInv'
    <3> USE DEF TypeOK, RecordedFirst, MemberHasRow
    <3>1. CASE CreateView(r) \/ StageConfig(r) \/ SubmitRun(r) \/ SubmitFails(r) \/ SubmitDirect(r) \/ AppCrash(r)
      BY <2>1, <3>1 DEF CreateView, StageConfig, SubmitRun, SubmitFails, SubmitDirect, AppCrash
    <3>2. CASE RecordDryrunStarted(r)
      <4>1. RowsOf(r)' # {}
        <5> DEFINE w == [run |-> r, by |-> "app", status |-> "RUNNING", created |-> now']
        <5>1. PICK lost \in May("placeholder") : rows' = IF lost THEN rows ELSE rows \cup {w}
          BY <3>2 DEF RecordDryrunStarted
        <5>2. lost = FALSE
          BY DEF May
        <5>3. w \in rows'
          BY <5>1, <5>2, Zenon
        <5>4. w.run = r
          OBVIOUS
        <5> HIDE DEF w
        <5>5. QED
          BY <5>3, <5>4 DEF RowsOf
      <4>2. QED
        BY <2>1, <3>2, <4>1 DEF RecordDryrunStarted
    <3>3. CASE CreateRunSet(r) \/ AddMember(r) \/ AddMemberFails(r)
      BY <2>1, <3>3 DEF CreateRunSet, AddMember, AddMemberFails
    <3>4. QED
      BY <2>3, <3>1, <3>2, <3>3 DEF Request
  <2>4. QED
    BY <2>2, <2>3, OnlyRequestsMove
<1>3. QED
  BY <1>1, <1>2, RunTypeCorrect, PTL DEF Spec

-----------------------------------------------------------------------------
(* The history.                                                            *)

\* Nothing is dated in the future: the newest row of a run exists.
Dated ==
  /\ \A w \in rows : w.created <= now
  /\ \A r \in Runs : start[r] <= now

\* The runner reports at most one SUCCESS per run, dated at its start, and a
\* FAILED row only as it fails; nobody rewrites its rows.
ResultRow(r) == [run |-> r, by |-> "runner", status |-> "SUCCESS", created |-> start[r]]

RunnerReports ==
  /\ \A w \in rows : w.by = "runner" =>
       \/ w = ResultRow(w.run) /\ job[w.run] \notin {"none", "queued", "running"}
       \/ w.status = "FAILED" /\ job[w.run] = "failed"
  /\ \A r \in Runs : job[r] \in {"persisting", "success"} => ResultRow(r) \in rows

\* A run has no job before its request submits it.
JobAfterSubmission == \A r \in Runs : pc[r] \in {"new", "viewed", "staged"} => job[r] = "none"

(* A nonempty set of rows that all lie in the past has a newest one. *)
LEMMA NewestRow ==
  ASSUME NEW W, W \subseteq Row, W # {}, NEW n \in Nat, \A w \in W : w.created <= n
  PROVE  \E w \in W : \A v \in W : v.created <= w.created
PROOF
<1> DEFINE R == {ss \in Nat \X Nat : ss[1] < ss[2]}
<1> DEFINE ages == {n - w.created : w \in W}
<1>1. IsWellFoundedOn(R, Nat)
  BY NatLessThanWellFounded DEF OpToRel
<1>2. \A x, y \in Nat : x < y => <<x, y>> \in R
  OBVIOUS
<1>3. \A w \in W : w.created \in Nat
  BY DEF Row
<1>4. ages \subseteq Nat /\ ages # {}
  BY <1>3
<1> HIDE DEF R
<1>5. PICK a \in ages : \A y \in ages : ~(<<y, a>> \in R)
  <2> HIDE DEF ages
  <2>1. QED
    BY <1>1, <1>4, WFMin, Zenon
<1>6. \A y \in ages : ~(y < a)
  <2> HIDE DEF ages
  <2>1. QED
    BY <1>2, <1>4, <1>5
<1>7. PICK w \in W : a = n - w.created
  OBVIOUS
<1>8. ASSUME NEW v \in W PROVE v.created <= w.created
  <2>1. ~(n - v.created < n - w.created)
    BY <1>6, <1>7
  <2>2. QED
    BY <1>3, <2>1
<1>9. QED
  BY <1>8

(* The listing shows a row of the run that precedes all its others. *)
LEMMA ShownRow ==
  ASSUME TypeOK, Dated, NEW r \in Runs, RowsOf(r) # {}
  PROVE  \E w \in RowsOf(r) : Shown(r) = w.status /\ \A v \in RowsOf(r) : Precedes(w, v)
PROOF
<1> DEFINE terminal == {w \in RowsOf(r) : w.status # "RUNNING"}
<1>1. RowsOf(r) \subseteq Row /\ now \in Nat /\ \A w \in RowsOf(r) : w.created <= now
  BY DEF TypeOK, Dated, RowsOf
<1>2. \E w \in RowsOf(r) : \A v \in RowsOf(r) : Precedes(w, v)
  <2>1. CASE terminal = {}
    <3>1. PICK w \in RowsOf(r) : \A v \in RowsOf(r) : v.created <= w.created
      BY <1>1, NewestRow
    <3>2. QED
      BY <1>1, <2>1, <3>1 DEF Precedes, Row
  <2>2. CASE terminal # {}
    <3>1. PICK w \in terminal : \A v \in terminal : v.created <= w.created
      BY <1>1, <2>2, NewestRow
    <3>2. QED
      BY <1>1, <3>1 DEF Precedes, Row
  <2>3. QED
    BY <2>1, <2>2
<1>3. QED
  BY <1>2 DEF Shown

(* The history shows a run as finished exactly when it has a terminal row. *)
LEMMA ShownTerminal ==
  ASSUME TypeOK, Dated, NEW r \in Runs
  PROVE  Shown(r) \in Terminal <=> HasTerminalRow(r)
PROOF
<1>1. CASE RowsOf(r) = {}
  BY <1>1 DEF Shown, HasTerminalRow, Terminal
<1>2. CASE RowsOf(r) # {}
  <2>1. PICK w \in RowsOf(r) : Shown(r) = w.status /\ \A v \in RowsOf(r) : Precedes(w, v)
    BY <1>2, ShownRow
  <2>2. \A v \in RowsOf(r) : v.status \in Terminal \/ v.status = "RUNNING"
    BY DEF TypeOK, RowsOf, Row
  <2>3. QED
    BY <2>1, <2>2 DEF HasTerminalRow, Precedes, Terminal
<1>3. QED
  BY <1>1, <1>2

(* No step submits a run twice. *)
LEMMA SubmissionStep ==
  ASSUME TypeOK, JobAfterSubmission, Next
  PROVE  JobAfterSubmission'
PROOF
<1> USE DEF JobAfterSubmission, TypeOK
<1>1. ASSUME NEW r \in Runs, Request(r) \/ AppCrash(r) PROVE JobAfterSubmission'
  BY <1>1 DEF Request, CreateView, StageConfig, SubmitRun, SubmitFails, SubmitDirect, RecordDryrunStarted,
              CreateRunSet, AddMember, AddMemberFails, AppCrash
<1>2. ASSUME NEW r \in Runs, Runner(r) \/ JobStops(r) PROVE JobAfterSubmission'
  BY <1>2 DEF Runner, JobStarts, AppendResult, PersistResult, RunnerFails, CannotGoOn, JobStops,
              Active, request
<1>3. ASSUME NEW r \in Runs,
             GetDryRunStatus(r) \/ CancelDryRun(r) \/ MarkCanceled(r) \/ DropCompletedRunView(r)
      PROVE  JobAfterSubmission'
  BY <1>3 DEF GetDryRunStatus, CancelDryRun, MarkCanceled, DropCompletedRunView, request
<1>4. ASSUME ListValidationRuns \/ SweepStaleTmpViews \/ GcOrphanViews \/ HoursPass
      PROVE  JobAfterSubmission'
  BY <1>4 DEF ListValidationRuns, SweepStaleTmpViews, GcOrphanViews, HoursPass, request
<1>5. QED
  BY <1>1, <1>2, <1>3, <1>4 DEF Next

(* Every step keeps dates in the past and the runner's rows as it wrote them. *)
LEMMA ReportsStep ==
  ASSUME TypeOK, JobAfterSubmission, Dated, RunnerReports, Next
  PROVE  Dated' /\ RunnerReports'
PROOF
<1> USE DEF Dated, RunnerReports, ResultRow
<1>1. ASSUME RowsRestated, UNCHANGED <<start, job, now>>
      PROVE  Dated' /\ RunnerReports'
  <2>1. Dated'
    BY <1>1 DEF RowsRestated, Restates
  <2>2. \A w \in rows : w.by = "runner" => w.status # "RUNNING"
    OBVIOUS
  <2>3. \A w : w.by = "runner" => (w \in rows <=> w \in rows')
    BY <1>1, <2>2 DEF RowsRestated, Restates
  <2>4. RunnerReports'
    BY <1>1, <2>3
  <2>5. QED
    BY <2>1, <2>4
<1>2. ASSUME NEW r \in Runs, Request(r) \/ AppCrash(r) PROVE Dated' /\ RunnerReports'
  <2> USE DEF TypeOK
  <2>1. CASE SubmitRun(r) \/ SubmitDirect(r)
    <3>1. /\ job[r] = "none" /\ job' = [job EXCEPT ![r] = "queued"]
          /\ UNCHANGED <<start, rows, now>>
      BY <2>1 DEF JobAfterSubmission, Prepared, SubmitRun, SubmitDirect
    <3>2. \A w \in rows : w.run \in Runs /\ (w.by = "runner" => w.run # r)
      BY <3>1 DEF Row
    <3>3. \A q \in Runs : job'[q] = IF q = r THEN "queued" ELSE job[q]
      BY <3>1
    <3>4. QED
      BY <3>1, <3>2, <3>3
  <2>2. CASE RecordDryrunStarted(r)
    BY <2>2 DEF RecordDryrunStarted, Row
  <2>3. CASE CreateView(r) \/ StageConfig(r) \/ SubmitFails(r) \/ CreateRunSet(r) \/ AddMember(r) \/ AddMemberFails(r) \/ AppCrash(r)
    BY <2>3 DEF CreateView, StageConfig, SubmitFails, CreateRunSet, AddMember, AddMemberFails, AppCrash
  <2>4. QED
    BY <1>2, <2>1, <2>2, <2>3 DEF Request
<1>3. ASSUME NEW r \in Runs, Runner(r) \/ JobStops(r) PROVE Dated' /\ RunnerReports'
  <2> USE DEF TypeOK
  <2>1. CASE JobStarts(r)
    BY <2>1 DEF JobStarts, Row
  <2>2. CASE AppendResult(r)
    BY <2>2 DEF AppendResult, Row
  <2>3. CASE PersistResult(r)
    BY <2>3 DEF PersistResult
  <2>4. CASE RunnerFails(r)
    BY <2>4 DEF RunnerFails, CannotGoOn, Row
  <2>5. CASE JobStops(r)
    BY <2>5 DEF JobStops, Active
  <2>6. QED
    BY <1>3, <2>1, <2>2, <2>3, <2>4, <2>5 DEF Runner
<1>4. ASSUME NEW r \in Runs, CancelDryRun(r) \/ DropCompletedRunView(r) PROVE Dated' /\ RunnerReports'
  BY <1>4 DEF CancelDryRun, DropCompletedRunView
<1>5. ASSUME GcOrphanViews \/ HoursPass PROVE Dated' /\ RunnerReports'
  BY <1>5 DEF GcOrphanViews, HoursPass
<1>6. ASSUME NEW r \in Runs, GetDryRunStatus(r) \/ MarkCanceled(r) PROVE Dated' /\ RunnerReports'
  BY <1>1, <1>6, WritersRestate DEF GetDryRunStatus, MarkCanceled
<1>7. ASSUME ListValidationRuns \/ SweepStaleTmpViews PROVE Dated' /\ RunnerReports'
  BY <1>1, <1>7, WritersRestate DEF ListValidationRuns, SweepStaleTmpViews
<1>8. QED
  BY <1>2, <1>3, <1>4, <1>5, <1>6, <1>7 DEF Next

\* The inductive invariant of the history.
HistoryInv == TypeOK /\ JobAfterSubmission /\ Dated /\ RunnerReports

(* It holds in every reachable state. *)
LEMMA HistoryIsSound == Spec => []HistoryInv
PROOF
<1>1. Init => JobAfterSubmission /\ Dated /\ RunnerReports
  BY DEF Init, JobAfterSubmission, Dated, RunnerReports
<1>2. TypeOK /\ JobAfterSubmission /\ Dated /\ RunnerReports /\ [Next]_vars
        => JobAfterSubmission' /\ Dated' /\ RunnerReports'
  <2>1. UNCHANGED vars /\ JobAfterSubmission /\ Dated /\ RunnerReports
          => JobAfterSubmission' /\ Dated' /\ RunnerReports'
    BY DEF vars, JobAfterSubmission, Dated, RunnerReports, ResultRow
  <2>2. QED
    BY <2>1, SubmissionStep, ReportsStep
<1>3. QED
  BY <1>1, <1>2, RunTypeCorrect, PTL DEF Spec, HistoryInv

(* A run whose job succeeded is shown as SUCCESS, for any number of runs and
   under every fault, provided its placeholder was inserted before it
   started. *)
THEOREM SuccessesAreShown == Spec => []SuccessIsShown
PROOF
<1>1. HistoryInv => SuccessIsShown
  <2> SUFFICES ASSUME TypeOK, Dated, RunnerReports, NEW r \in Runs, job[r] = "success",
                      \A w \in RowsOf(r) : w.by = "app" => w.created < start[r]
               PROVE  Shown(r) = "SUCCESS"
    BY DEF SuccessIsShown, HistoryInv
  <2>1. ResultRow(r) \in RowsOf(r)
    BY DEF RunnerReports, RowsOf, ResultRow
  <2>2. PICK w \in RowsOf(r) : Shown(r) = w.status /\ \A v \in RowsOf(r) : Precedes(w, v)
    BY <2>1, ShownRow
  <2>3. w \in Row /\ w.run = r /\ start[r] \in Nat
    BY DEF TypeOK, RowsOf
  <2>4. w.created >= start[r]
    BY <2>1, <2>2, <2>3 DEF Precedes, ResultRow
  <2>5. w.by = "runner"
    BY <2>3, <2>4 DEF Row
  <2>6. w = ResultRow(r)
    BY <2>3, <2>5 DEF RunnerReports, RowsOf
  <2>7. QED
    BY <2>2, <2>6 DEF ResultRow
<1>2. QED
  BY <1>1, HistoryIsSound, PTL

(* A run that the history shows as finished is never shown as running again,
   for any number of runs and under every fault. *)
THEOREM FinishedRunsStayFinished == Spec => TerminalStaysTerminal
PROOF
<1>1. HistoryInv /\ HistoryInv' /\ [Next]_vars
        => [\A r \in Runs : Shown(r) \in Terminal => Shown(r)' \in Terminal]_vars
  <2> SUFFICES ASSUME TypeOK, Dated, TypeOK', Dated', Next, NEW r \in Runs, Shown(r) \in Terminal
               PROVE  Shown(r)' \in Terminal
    BY DEF HistoryInv
  <2>1. HasTerminalRow(r)'
    BY ShownTerminal, RunKeepsRows
  <2>2. (TypeOK /\ Dated => (Shown(r) \in Terminal <=> HasTerminalRow(r)))'
    BY ShownTerminal, PTL
  <2>3. Terminal' = Terminal
    BY DEF Terminal
  <2>4. QED
    BY <2>1, <2>2, <2>3
<1>2. QED
  BY <1>1, HistoryIsSound, PTL DEF Spec, TerminalStaysTerminal

-----------------------------------------------------------------------------
(* What a live job needs.                                                  *)

\* Only a job that read its configuration has started its run, and a request
\* that has staged one leaves it alone until it submits.
StagedInOrder ==
  \A r \in Runs : /\ job[r] \in {"none", "queued"} => start[r] = 0
                  /\ pc[r] = "staged" => staged[r]

\* The inductive invariant of staged configurations.
StagedInv == TypeOK /\ JobAfterSubmission /\ StagedInOrder /\ StagedConfigIsNeeded

(* A request stages before it submits, and takes back what it staged in vain. *)
LEMMA RequestStages ==
  ASSUME StagedInv, "cleanup" \notin FaultKinds, NEW r \in Runs, Request(r) \/ AppCrash(r)
  PROVE  StagedInOrder' /\ StagedConfigIsNeeded'
PROOF
<1> USE DEF StagedInv, TypeOK, JobAfterSubmission, StagedInOrder, StagedConfigIsNeeded, Active
<1>1. CASE StageConfig(r)
  BY <1>1 DEF StageConfig
<1>2. CASE SubmitRun(r)
  BY <1>2 DEF SubmitRun, Prepared
<1>3. CASE SubmitFails(r)
  <2>1. staged' = [staged EXCEPT ![r] = FALSE] /\ pc' = [pc EXCEPT ![r] = "failed"] /\ UNCHANGED <<job, start>>
    BY <1>3 DEF SubmitFails, May
  <2>2. job[r] = "none"
    BY <1>3 DEF SubmitFails, Prepared
  <2>3. QED
    BY <2>1, <2>2
<1>4. CASE SubmitDirect(r)
  BY <1>4, RunAssumption DEF SubmitDirect
<1>5. CASE AppCrash(r)
  BY <1>5 DEF AppCrash, MidRequest
<1>6. CASE CreateView(r) \/ RecordDryrunStarted(r) \/ CreateRunSet(r) \/ AddMember(r) \/ AddMemberFails(r)
  BY <1>6 DEF CreateView, RecordDryrunStarted, CreateRunSet, AddMember, AddMemberFails
<1>7. QED
  BY <1>1, <1>2, <1>3, <1>4, <1>5, <1>6 DEF Request

(* The runner removes what it has read, and leaves what it could not read. *)
LEMMA RunnerUnstages ==
  ASSUME StagedInv, "cleanup" \notin FaultKinds, NEW r \in Runs, Runner(r) \/ JobStops(r)
  PROVE  StagedInOrder' /\ StagedConfigIsNeeded'
PROOF
<1> USE DEF StagedInv, TypeOK, JobAfterSubmission, StagedInOrder, StagedConfigIsNeeded, Active
<1>1. CASE JobStarts(r)
  BY <1>1 DEF JobStarts, request
<1>2. CASE AppendResult(r)
  BY <1>2 DEF AppendResult, request
<1>3. CASE PersistResult(r) \/ RunnerFails(r)
  <2>1. PICK end \in {"success", "failed"} :
          /\ job' = [job EXCEPT ![r] = end] /\ UNCHANGED <<pc, start>>
          /\ job[r] \in Active /\ (job[r] = "queued" => end = "failed")
    BY <1>3 DEF PersistResult, RunnerFails, CannotGoOn, request
  <2>2. staged' = [staged EXCEPT ![r] = staged[r] /\ job[r] = "queued"]
    BY <1>3 DEF PersistResult, RunnerFails, RunnerExit, May
  <2>3. QED
    BY <2>1, <2>2
<1>4. CASE JobStops(r)
  BY <1>4 DEF JobStops, request
<1>5. QED
  BY <1>1, <1>2, <1>3, <1>4 DEF Runner

(* StagedConfigIsNeeded, with StagedInOrder, is inductive: while deletions from
   dq_run_configs succeed, a large configuration is there for as long as its job
   may read it, and it stays behind only with a job that was stopped before its
   finally block or could not read it, or with a request that died before it
   started one. *)
THEOREM StagedConfigsAreNeeded ==
  ASSUME "cleanup" \notin FaultKinds
  PROVE  Spec => []StagedConfigIsNeeded
PROOF
<1>1. Init => JobAfterSubmission /\ StagedInOrder /\ StagedConfigIsNeeded
  BY DEF Init, JobAfterSubmission, StagedInOrder, StagedConfigIsNeeded
<1>2. TypeOK /\ JobAfterSubmission /\ StagedInOrder /\ StagedConfigIsNeeded /\ [Next]_vars
        => JobAfterSubmission' /\ StagedInOrder' /\ StagedConfigIsNeeded'
  <2>1. UNCHANGED <<pc, staged, job, start>> /\ StagedInOrder /\ StagedConfigIsNeeded
          => StagedInOrder' /\ StagedConfigIsNeeded'
    BY DEF StagedInOrder, StagedConfigIsNeeded
  <2>2. UNCHANGED vars => UNCHANGED <<pc, staged, job, start>> /\ (JobAfterSubmission => JobAfterSubmission')
    BY DEF vars, JobAfterSubmission
  <2>3. ASSUME NEW r \in Runs,
               GetDryRunStatus(r) \/ CancelDryRun(r) \/ MarkCanceled(r) \/ DropCompletedRunView(r)
        PROVE  UNCHANGED <<pc, staged, job, start>>
    BY <2>3 DEF GetDryRunStatus, CancelDryRun, MarkCanceled, DropCompletedRunView, request
  <2>4. ASSUME ListValidationRuns \/ SweepStaleTmpViews \/ GcOrphanViews \/ HoursPass
        PROVE  UNCHANGED <<pc, staged, job, start>>
    BY <2>4 DEF ListValidationRuns, SweepStaleTmpViews, GcOrphanViews, HoursPass, request
  <2>5. QED
    BY <2>1, <2>2, <2>3, <2>4, SubmissionStep, RequestStages, RunnerUnstages DEF Next, StagedInv
<1>3. QED
  BY <1>1, <1>2, RunTypeCorrect, PTL DEF Spec

\* A request is over long before anything of it is old; until it submits the
\* run nobody but itself touches the view, and the run has no row.
RequestIsYoung ==
  \A r \in Runs :
    /\ pc[r] \in MidRequest \cup {"new"} => age[r] = 0
    /\ pc[r] \in {"viewed", "staged"} => view[r]
    /\ pc[r] = "submitted" => job[r] # "none"
    /\ job[r] = "none" => RowsOf(r) = {}

(* A run gets its first row from its own request, or from its runner. *)
LEMMA FirstRow ==
  ASSUME TypeOK, Next, NEW q \in Runs, RowsOf(q) = {}, RowsOf(q)' # {}
  PROVE  /\ pc[q] = "submitted" \/ HasTerminalRow(q)'
         /\ pc[q] = "submitted" \/ job[q] \in Active
PROOF
<1>1. ~RowsRestated /\ rows' # rows
  BY DEF RowsRestated, Restates, RowsOf
<1>2. ASSUME NEW r \in Runs, Request(r) \/ AppCrash(r)
      PROVE  pc[q] = "submitted"
  BY <1>1, <1>2 DEF Request, CreateView, StageConfig, SubmitRun, SubmitFails, SubmitDirect, RecordDryrunStarted,
                    CreateRunSet, AddMember, AddMemberFails, AppCrash, RowsOf
<1>3. ASSUME NEW r \in Runs, Runner(r) \/ JobStops(r)
      PROVE  HasTerminalRow(q)' /\ job[q] \in Active
  <2>1. CASE AppendResult(r)
    BY <2>1 DEF AppendResult, RowsOf, HasTerminalRow, Active
  <2>2. CASE RunnerFails(r)
    BY <2>2 DEF RunnerFails, CannotGoOn, RowsOf, HasTerminalRow, Active
  <2>3. QED
    BY <1>1, <1>3, <2>1, <2>2 DEF Runner, JobStarts, PersistResult, JobStops
<1>4. \A r \in Runs : ~(CancelDryRun(r) \/ DropCompletedRunView(r))
  BY <1>1 DEF CancelDryRun, DropCompletedRunView
<1>5. ~(GcOrphanViews \/ HoursPass)
  BY <1>1 DEF GcOrphanViews, HoursPass
<1>6. QED
  BY <1>1, <1>2, <1>3, <1>4, <1>5, WritersRestate DEF Next

(* A job becomes active only by submission, and never has no state again. *)
LEMMA JobStep ==
  ASSUME TypeOK, Next, NEW q \in Runs
  PROVE  /\ job[q] # "none" => job'[q] # "none"
         /\ job'[q] \in Active => job[q] \in Active \/ SubmitRun(q) \/ SubmitDirect(q)
         /\ pc'[q] = "submitted" => pc[q] = "submitted" \/ SubmitRun(q)
PROOF
<1> USE DEF TypeOK, Active, Ended
<1>1. ASSUME NEW r \in Runs, SubmitRun(r) \/ SubmitDirect(r) PROVE r = q \/ (pc'[q] = pc[q] /\ job'[q] = job[q])
  BY <1>1 DEF SubmitRun, SubmitDirect
<1>2. ASSUME NEW r \in Runs, SubmitRun(r) \/ SubmitDirect(r)
      PROVE  job'[r] = "queued" /\ (SubmitDirect(r) => pc'[r] = "done")
  BY <1>2 DEF SubmitRun, SubmitDirect
<1>3. ASSUME NEW r \in Runs,
             CreateView(r) \/ StageConfig(r) \/ SubmitFails(r) \/ RecordDryrunStarted(r) \/ CreateRunSet(r)
               \/ AddMember(r) \/ AddMemberFails(r) \/ AppCrash(r)
      PROVE  job' = job /\ (pc'[q] = "submitted" => pc[q] = "submitted")
  BY <1>3 DEF CreateView, StageConfig, SubmitFails, RecordDryrunStarted, CreateRunSet, AddMember, AddMemberFails, AppCrash
<1>4. ASSUME NEW r \in Runs, Runner(r) \/ JobStops(r)
      PROVE  /\ job[q] # "none" => job'[q] # "none"
             /\ job'[q] \in Active => job[q] \in Active
  BY <1>4 DEF Runner, JobStarts, AppendResult, PersistResult, RunnerFails, CannotGoOn, JobStops
<1>5. ASSUME NEW r \in Runs,
             GetDryRunStatus(r) \/ CancelDryRun(r) \/ MarkCanceled(r) \/ DropCompletedRunView(r)
      PROVE  job' = job
  BY <1>5 DEF GetDryRunStatus, CancelDryRun, MarkCanceled, DropCompletedRunView
<1>6. ASSUME ListValidationRuns \/ SweepStaleTmpViews \/ GcOrphanViews \/ HoursPass PROVE job' = job
  BY <1>6 DEF ListValidationRuns, SweepStaleTmpViews, GcOrphanViews, HoursPass
<1>7. CASE \E r \in Runs : Request(r) \/ AppCrash(r)
  BY <1>1, <1>2, <1>3, <1>7 DEF Request
<1>8. CASE UNCHANGED request
  BY <1>4, <1>5, <1>6, <1>7, <1>8 DEF Next, request
<1>9. QED
  BY <1>7, <1>8, OnlyRequestsMove

(* DROP VIEW leaves the other views alone. *)
LEMMA OthersKept ==
  ASSUME TypeOK, NEW S, DropViews(S), NEW q \in Runs, q \notin S
  PROVE  view'[q] = view[q]
PROOF
  BY DEF DropViews, TypeOK

(* Why a view disappears: its run was never submitted, has ended, has a
   terminal row, or is old and no RUNNING row names it. *)
LEMMA WhyDropped ==
  ASSUME TypeOK, RequestIsYoung, JobAfterSubmission, "gc_read" \notin FaultKinds, Next,
         NEW q \in Runs, view[q], ~view'[q]
  PROVE  \/ job[q] = "none" /\ pc'[q] = "failed"
         \/ job'[q] \in Ended
         \/ HasTerminalRow(q)
         \/ age[q] = Old /\ \A w \in RowsOf(q) : w.status # "RUNNING"
PROOF
<1>1. ASSUME NEW r \in Runs, Request(r) \/ AppCrash(r) PROVE job[q] = "none" /\ pc'[q] = "failed"
  <2> USE DEF TypeOK, JobAfterSubmission
  <2>1. CASE CreateView(r)
    BY <2>1 DEF CreateView
  <2>2. CASE StageConfig(r) \/ SubmitFails(r)
    <3>1. q = r
      BY <2>2, OthersKept DEF StageConfig, SubmitFails
    <3>2. QED
      BY <2>2, <3>1 DEF StageConfig, SubmitFails, Prepared
  <2>3. QED
    BY <1>1, <2>1, <2>2 DEF Request, SubmitRun, SubmitDirect, RecordDryrunStarted,
                            CreateRunSet, AddMember, AddMemberFails, AppCrash
<1>2. ASSUME NEW r \in Runs, Runner(r) \/ JobStops(r) PROVE job'[q] \in Ended
  BY <1>2 DEF TypeOK, Runner, JobStarts, AppendResult, PersistResult, RunnerFails, RunnerExit, JobStops, Ended
<1>3. ASSUME NEW r \in Runs, GetDryRunStatus(r) PROVE job'[q] \in Ended
  <2>1. q = r
    BY <1>3, OthersKept DEF GetDryRunStatus
  <2>2. QED
    BY <1>3, <2>1 DEF GetDryRunStatus
<1>4. \A r \in Runs : ~(CancelDryRun(r) \/ MarkCanceled(r))
  BY DEF CancelDryRun, MarkCanceled
<1>5. ASSUME NEW r \in Runs, DropCompletedRunView(r) PROVE HasTerminalRow(q)
  <2>1. q = r
    BY <1>5, OthersKept DEF DropCompletedRunView
  <2>2. QED
    BY <1>5, <2>1 DEF DropCompletedRunView
<1>6. ~(ListValidationRuns \/ HoursPass)
  BY DEF ListValidationRuns, HoursPass
<1>7. ASSUME SweepStaleTmpViews PROVE HasTerminalRow(q) \/ job'[q] \in Ended
  <2>1. PICK silent : DropViews(SweepTargets(silent))
    BY <1>7 DEF SweepStaleTmpViews
  <2>2. q \in SweepTargets(silent)
    BY <2>1, OthersKept
  <2>3. job' = job
    BY <1>7 DEF SweepStaleTmpViews
  <2>4. QED
    BY <2>2, <2>3 DEF SweepTargets, Abandoned
<1>8. ASSUME GcOrphanViews PROVE age[q] = Old /\ \A w \in RowsOf(q) : w.status # "RUNNING"
  <2>1. PICK unreadable \in May("gc_read") : DropViews(GcTargets(unreadable))
    BY <1>8 DEF GcOrphanViews
  <2>2. unreadable = FALSE
    BY DEF May
  <2>3. q \in GcTargets(FALSE)
    BY <2>1, <2>2, OthersKept
  <2>4. QED
    BY <2>3 DEF GcTargets, InUse, RunningRows, RowsOf
<1>9. QED
  BY <1>1, <1>2, <1>3, <1>4, <1>5, <1>6, <1>7, <1>8 DEF Next

(* Every step keeps RequestIsYoung. *)
LEMMA YoungStep ==
  ASSUME TypeOK, RequestIsYoung, JobAfterSubmission, "gc_read" \notin FaultKinds, Next
  PROVE  RequestIsYoung'
PROOF
<1> SUFFICES ASSUME NEW q \in Runs
             PROVE  /\ pc'[q] \in MidRequest \cup {"new"} => age'[q] = 0
                    /\ pc'[q] \in {"viewed", "staged"} => view'[q]
                    /\ pc'[q] = "submitted" => job'[q] # "none"
                    /\ job'[q] = "none" => RowsOf(q)' = {}
  BY DEF RequestIsYoung, MidRequest
<1>1. pc'[q] \in MidRequest \cup {"new"} => pc[q] \in MidRequest \cup {"new"}
  <2>1. ASSUME NEW r \in Runs, Request(r) \/ AppCrash(r)
        PROVE  pc'[q] \in MidRequest \cup {"new"} => pc[q] \in MidRequest \cup {"new"}
    BY <2>1 DEF TypeOK, MidRequest, Request, CreateView, StageConfig, Prepared, SubmitRun, SubmitFails,
                SubmitDirect, RecordDryrunStarted, CreateRunSet, AddMember, AddMemberFails, AppCrash
  <2>2. QED
    BY <2>1, OnlyRequestsMove DEF request
<1>2. HoursPass => pc[q] \notin MidRequest /\ (pc[q] = "new" => age'[q] = age[q])
  BY DEF HoursPass, TypeOK
<1>3. ~HoursPass => age' = age
  <2>1. ASSUME NEW r \in Runs, Request(r) \/ AppCrash(r) PROVE age' = age
    BY <2>1 DEF Request, CreateView, StageConfig, SubmitRun, SubmitFails, SubmitDirect, RecordDryrunStarted,
                CreateRunSet, AddMember, AddMemberFails, AppCrash
  <2>2. ASSUME NEW r \in Runs, Runner(r) \/ JobStops(r) PROVE age' = age
    BY <2>2 DEF Runner, JobStarts, AppendResult, PersistResult, RunnerFails, JobStops
  <2>3. ASSUME NEW r \in Runs,
               GetDryRunStatus(r) \/ CancelDryRun(r) \/ MarkCanceled(r) \/ DropCompletedRunView(r)
        PROVE  age' = age
    BY <2>3 DEF GetDryRunStatus, CancelDryRun, MarkCanceled, DropCompletedRunView
  <2>4. ListValidationRuns \/ SweepStaleTmpViews \/ GcOrphanViews => age' = age
    BY DEF ListValidationRuns, SweepStaleTmpViews, GcOrphanViews
  <2>5. QED
    BY <2>1, <2>2, <2>3, <2>4 DEF Next
<1>4. pc'[q] \in MidRequest \cup {"new"} => age'[q] = 0
  BY <1>1, <1>2, <1>3 DEF RequestIsYoung, HoursPass, request
<1>5. pc'[q] \in {"viewed", "staged"} => view'[q]
  <2> SUFFICES ASSUME pc'[q] \in {"viewed", "staged"} PROVE view'[q]
    OBVIOUS
  <2>1. CASE pc[q] \in {"viewed", "staged"}
    <3>1. view[q] /\ age[q] = 0 /\ job[q] = "none" /\ RowsOf(q) = {}
      BY <2>1 DEF RequestIsYoung, JobAfterSubmission, MidRequest
    <3>2. job'[q] = "none"
      <4>1. JobAfterSubmission'
        BY SubmissionStep
      <4>2. QED
        BY <4>1 DEF JobAfterSubmission
    <3>3. QED
      BY <3>1, <3>2, WhyDropped DEF HasTerminalRow, Old, Ended
  <2>2. CASE pc[q] \notin {"viewed", "staged"}
    <3>1. \E r \in Runs : Request(r) \/ AppCrash(r)
      BY <2>2, OnlyRequestsMove DEF request
    <3>2. CreateView(q)
      BY <2>2, <3>1 DEF TypeOK, Request, CreateView, StageConfig, SubmitRun, SubmitFails, SubmitDirect,
                RecordDryrunStarted, CreateRunSet, AddMember, AddMemberFails, AppCrash
    <3>3. PICK fails \in May("view") :
            /\ view' = [view EXCEPT ![q] = ~fails]
            /\ pc' = [pc EXCEPT ![q] = IF fails THEN "failed" ELSE "viewed"]
      BY <3>2 DEF CreateView
    <3>4. ~fails
      BY <3>3 DEF TypeOK
    <3>5. QED
      BY <3>3, <3>4 DEF TypeOK
  <2>3. QED
    BY <2>1, <2>2
<1>6. pc'[q] = "submitted" => job'[q] # "none"
  BY JobStep DEF RequestIsYoung, SubmitRun, TypeOK
<1>7. job'[q] = "none" => RowsOf(q)' = {}
  BY JobStep, FirstRow DEF RequestIsYoung, Active
<1>8. QED
  BY <1>4, <1>5, <1>6, <1>7

(* While the collection can read dq_validation_runs, the view of a job that is
   active, known to the application and has not reported stays: no poll, sweep,
   collection or failed run-set insert drops it. *)
THEOREM LiveViewsAreKept ==
  ASSUME "gc_read" \notin FaultKinds
  PROVE  Spec => []LiveViewIsKept
PROOF
<1> DEFINE IInv == RequestIsYoung /\ JobAfterSubmission /\ LiveViewIsKept
<1>1. Init => IInv
  BY DEF Init, RequestIsYoung, JobAfterSubmission, LiveViewIsKept, RowsOf, Active
<1>2. TypeOK /\ IInv /\ Next => LiveViewIsKept'
  <2> SUFFICES ASSUME TypeOK, IInv, Next, NEW q \in Runs \ PreviewRuns,
                      job'[q] \in Active, ~HasTerminalRow(q)',
                      RowsOf(q)' # {} \/ pc'[q] = "submitted"
               PROVE  view'[q]
    BY DEF LiveViewIsKept
  <2>1. ~HasTerminalRow(q)
    BY RunKeepsRows
  <2>2. CASE SubmitRun(q) \/ SubmitDirect(q)
    <3>1. SubmitRun(q)
      BY <2>2 DEF SubmitRun, SubmitDirect, Prepared, RequestIsYoung, JobAfterSubmission, RowsOf, TypeOK
    <3>2. QED
      BY <3>1 DEF SubmitRun, Prepared, RequestIsYoung
  <2>3. CASE ~(SubmitRun(q) \/ SubmitDirect(q))
    <3>1. job[q] \in Active /\ (pc'[q] = "submitted" => pc[q] = "submitted")
      BY <2>3, JobStep
    <3>2. RowsOf(q) # {} \/ pc[q] = "submitted"
      BY <3>1, FirstRow
    <3>3. view[q]
      BY <2>1, <3>1, <3>2 DEF LiveViewIsKept
    <3>4. ASSUME ~view'[q] PROVE FALSE
      <4>1. age[q] = Old /\ \A w \in RowsOf(q) : w.status # "RUNNING"
        BY <2>1, <3>1, <3>3, <3>4, WhyDropped DEF Active, Ended
      <4>2. RowsOf(q) = {}
        BY <2>1, <4>1 DEF HasTerminalRow
      <4>3. QED
        BY <3>2, <4>1, <4>2 DEF RequestIsYoung, MidRequest, Old
    <3>5. QED
      BY <3>4
  <2>4. QED
    BY <2>2, <2>3
<1>3. TypeOK /\ IInv /\ [Next]_vars => IInv'
  <2>1. UNCHANGED vars /\ IInv => IInv'
    BY DEF vars, RequestIsYoung, JobAfterSubmission, LiveViewIsKept, RowsOf, HasTerminalRow
  <2>2. QED
    BY <1>2, <2>1, YoungStep, SubmissionStep
<1>4. QED
  BY <1>1, <1>3, RunTypeCorrect, PTL DEF Spec
=============================================================================
