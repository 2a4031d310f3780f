--------------------------- MODULE SchedulerProofs ---------------------------
(***************************************************************************)
(* What the scheduler guarantees for every set of schedules, every cadence *)
(* and every number of faults and edits.  One inductive invariant, in      *)
(* three layers:                                                           *)
(*   TypeOK, Control   types and the places of the loop,                   *)
(*   Timeline          last_run_at <= now of the tick <= clock, and         *)
(*                     next_run_at after last_run_at,                      *)
(*   Snapshot          the once-per-tick list of active runs still covers  *)
(*                     every schedule the tick has yet to decide about.    *)
(***************************************************************************)
EXTENDS Scheduler, WellFoundedInduction, TLAPS

(* Every nonempty set of minutes has a least element. *)
LEMMA MinOfNat ==
  ASSUME NEW S \in SUBSET Nat, S # {}
  PROVE  Min(S) \in S /\ \A x \in S : Min(S) <= x
PROOF
<1> DEFINE R == {ss \in Nat \X Nat : ss[1] < ss[2]}
<1>1. IsWellFoundedOn(R, Nat)
  BY NatLessThanWellFounded DEF OpToRel
<1>2. \A x, y \in Nat : x < y => <<x, y>> \in R
  OBVIOUS
<1> HIDE DEF R
<1>3. PICK m \in S : \A y \in S : ~(<<y, m>> \in R)
  BY <1>1, WFMin, Zenon
<1>4. \A y \in S : ~(y < m)
  BY <1>2, <1>3
<1>5. \A y \in S : m <= y
  BY <1>4
<1>6. QED
  BY <1>5 DEF Min

(* What NextRun returns is an occurrence after the minute it is asked about. *)
LEMMA NextRunIsLater ==
  ASSUME NEW c \in Cadences, NEW after \in Int
  PROVE  /\ NextRun(c, after) \in Times
         /\ NextRun(c, after) # NoTime => NextRun(c, after) \in Nat /\ NextRun(c, after) > after
PROOF
<1> DEFINE later == {t \in Occurs[c] : t > after}
<1>1. later \in SUBSET Nat
  BY ScheduleAssumption DEF ScheduleAssumption
<1>2. CASE later = {}
  BY <1>2 DEF NextRun, Times, NoTime
<1>3. CASE later # {}
  <2>1. Min(later) \in later
    BY <1>1, <1>3, MinOfNat
  <2>2. NextRun(c, after) = Min(later)
    BY <1>3 DEF NextRun
  <2>3. QED
    BY <1>1, <2>1, <2>2 DEF Times
<1>4. QED
  BY <1>2, <1>3

(* The places of the loop: a phase is loaded only in a tick, and between
   phases nothing is left to process. *)
Control ==
  /\ loaded => phase # "asleep"
  /\ ~loaded => todo = {} /\ stage = "pick"

(* A fresh process on a fresh tracker is well typed. *)
LEMMA TypeInit == Init => TypeOK /\ Control
PROOF
<1> SUFFICES ASSUME Init PROVE TypeOK /\ Control
  OBVIOUS
<1>1. WorldOK /\ RowsOK
  BY DEF Init, WorldOK, RowsOK, Times
<1>2. TrackerOK /\ MemoryOK
  BY DEF Init, TrackerOK, MemoryOK, Times, Statuses
<1>3. TickOK
  BY DEF Init, TickOK
<1>4. FiringOK /\ Control
  BY DEF Init, FiringOK, Control
<1>5. QED
  BY <1>1, <1>2, <1>3, <1>4 DEF TypeOK

(* Every action keeps the types and the places of the loop. *)
LEMMA TypeStep == TypeOK /\ Control /\ [Next]_vars => TypeOK' /\ Control'
PROOF
<1> SUFFICES ASSUME TypeOK, Control, [Next]_vars PROVE TypeOK' /\ Control'
  OBVIOUS
<1> USE DEF TypeOK, Control
<1>1. CASE Advance
  BY <1>1 DEF Advance, rows, tracker, memory, tickVars, seenVars, firing, WorldOK, RowsOK, TrackerOK, MemoryOK, TickOK, FiringOK
<1>2. ASSUME NEW j \in jobs, JobEnds(j) PROVE TypeOK' /\ Control'
  BY <1>2 DEF JobEnds, rows, tracker, memory, tickVars, seenVars, firing, WorldOK, RowsOK, TrackerOK, MemoryOK, TickOK, FiringOK
<1>3. ASSUME NEW t \in Tables, NEW ty \in {"dq", "preview"}, ManualRun(t, ty) PROVE TypeOK' /\ Control'
  BY <1>3 DEF ManualRun, Job, rows, tracker, memory, tickVars, seenVars, firing, WorldOK, RowsOK, TrackerOK, MemoryOK, TickOK, FiringOK
<1>4. ASSUME NEW s \in Schedules, NEW c \in Cadences \cup {NoCadence}, EditCadence(s, c) PROVE TypeOK' /\ Control'
  BY <1>4 DEF EditCadence, tracker, tickVars, seenVars, firing, WorldOK, RowsOK, TrackerOK, MemoryOK, TickOK, FiringOK
<1>5. ASSUME NEW s \in Schedules, NEW p \in BOOLEAN, SetPaused(s, p) PROVE TypeOK' /\ Control'
  BY <1>5 DEF SetPaused, tracker, tickVars, seenVars, firing, WorldOK, RowsOK, TrackerOK, MemoryOK, TickOK, FiringOK, Times
<1>6. CASE Notify
  BY <1>6 DEF Notify, world, rows, tracker, tickVars, seenVars, firing, WorldOK, RowsOK, TrackerOK, MemoryOK, TickOK, FiringOK
<1>7. CASE BeginTick
  BY <1>7 DEF BeginTick, world, rows, tracker, firing, WorldOK, RowsOK, TrackerOK, MemoryOK, TickOK, FiringOK
<1>8. CASE LoadRows
  BY <1>8 DEF LoadRows, NoFault, Fault, PhaseSchedules, Schedules, rows, tracker, memory, seenVars, firing, WorldOK, RowsOK, TrackerOK, MemoryOK, TickOK, FiringOK
<1>9. CASE EndPhase
  BY <1>9 DEF EndPhase, world, rows, tracker, memory, firing, WorldOK, RowsOK, TrackerOK, MemoryOK, TickOK, FiringOK
<1>10. ASSUME NEW s \in Schedules, PassPaused(s) PROVE TypeOK' /\ Control'
  BY <1>10 DEF PassPaused, Drop, world, rows, tracker, memory, seenVars, firing, WorldOK, RowsOK, TrackerOK, MemoryOK, TickOK, FiringOK
<1>11. ASSUME NEW s \in Schedules, Align(s) PROVE TypeOK' /\ Control'
  <2>1. row[s] \in Cadences /\ tickBefore \in Int /\ last[s] \in Int
    BY <1>11 DEF Align, TickOK, TrackerOK, Times, NoTime
  <2>2. Target(s) \in Times
    BY <2>1, NextRunIsLater, BoundAssumption DEF Target, Reseeds, BoundAssumption, TickOK, TrackerOK, Times, NoTime, Schedules
  <2>3. TargetStatus(s) \in Statuses
    BY DEF TargetStatus, TrackerOK, Statuses
  <2>4. TrackerOK'
    BY <1>11, <2>2, <2>3 DEF Align, Upsert, tracker, TrackerOK
  <2>5. TickOK' /\ FiringOK' /\ Control'
    BY <1>11 DEF Align, Drop, tickVars, seenVars, firing, TickOK, FiringOK
  <2>6. WorldOK' /\ RowsOK' /\ MemoryOK'
    BY <1>11 DEF Align, NoFault, Fault, rows, memory, WorldOK, RowsOK, MemoryOK
  <2>7. QED
    BY <2>4, <2>5, <2>6
<1>12. CASE ReadActiveRuns
  BY <1>12 DEF ReadActiveRuns, NoFault, Fault, rows, tracker, memory, tickVars, firing, WorldOK, RowsOK, TrackerOK, MemoryOK, TickOK, FiringOK
<1>13. ASSUME NEW s \in Schedules, Defer(s) PROVE TypeOK' /\ Control'
  BY <1>13 DEF Defer, LeaveSchedule, Drop, FirstSeen, Times, world, rows, tracker, seenVars, firing, WorldOK, RowsOK, TrackerOK, MemoryOK, TickOK, FiringOK
<1>14. \A s \in todo : NextOrBackoff(row[s]) \in Nat /\ NextOrBackoff(row[s]) > tickNow
  BY NextRunIsLater, BoundAssumption DEF NextOrBackoff, BoundAssumption, TickOK, Times
<1>15. ASSUME NEW s \in Schedules, Skip(s) PROVE TypeOK' /\ Control'
  BY <1>14, <1>15 DEF Skip, LeaveSchedule, Drop, Upsert, NoFault, Fault, Times, NoTime, Statuses, world, rows, tracker, seenVars, firing, WorldOK, RowsOK, TrackerOK, MemoryOK, TickOK, FiringOK
<1>16. ASSUME NEW s \in Schedules, StartFiring(s) PROVE TypeOK' /\ Control'
  <2>1. DqSubRuns(s) \subseteq SubRun /\ ProfileSubRuns(s) \subseteq SubRun
    BY ScheduleAssumption DEF ScheduleAssumption, DqSubRuns, ProfileSubRuns, SubRun
  <2>2. FanOutReturns(s) \in BOOLEAN
    BY DEF FanOutReturns
  <2>3. FiringOK'
    BY <1>16, <2>1, <2>2 DEF StartFiring, tickVars, FiringOK
  <2>4. QED
    BY <1>16, <2>3 DEF StartFiring, Fault, NoFault, Times, NoTime, rows, tracker, tickVars, seenVars, WorldOK, RowsOK, TrackerOK, MemoryOK, TickOK, FiringOK
<1>17. ASSUME NEW s \in Schedules, TriggerFails(s) PROVE TypeOK' /\ Control'
  BY <1>14, <1>17 DEF TriggerFails, LeaveSchedule, Drop, Upsert, Fault, Times, NoTime, MintedId, Statuses, rows, tracker, seenVars, firing, WorldOK, RowsOK, TrackerOK, MemoryOK, TickOK, FiringOK
<1>18. ASSUME NEW ty \in {"dq", "profile"}, NEW t \in Tables, Submit(ty, t) PROVE TypeOK' /\ Control'
  <2>1. cur \in Schedules
    BY <1>18 DEF Submit, TickOK, FiringOK
  <2>2. WorldOK'
    BY <1>18, <2>1 DEF Submit, NewJob, NoFault, Fault, Job, WorldOK
  <2>3. subs' = subs \ {<<ty, t>>} /\ (ids' = ids \/ ids' = ids \cup {nRuns + 1})
    BY <1>18 DEF Submit
  <2>4. nRuns + 1 \in Nat /\ ids \subseteq Nat
    BY DEF WorldOK, FiringOK
  <2>5. ids' \subseteq Nat
    BY <2>3, <2>4, Zenon
  <2>6. subs' \subseteq SubRun
    BY <2>3, Zenon DEF FiringOK
  <2>7. anyOk' \in BOOLEAN /\ anyFailed' \in BOOLEAN
    BY <1>18 DEF Submit, FiringOK
  <2>8. UNCHANGED <<rows, tracker, memory, tickVars, seenVars, stage, cur>>
    BY <1>18 DEF Submit
  <2>9. QED
    BY <2>2, <2>5, <2>7, <2>8, <2>6 DEF rows, tracker, memory, tickVars, seenVars, RowsOK, TrackerOK, MemoryOK, TickOK, FiringOK
<1>19. ASSUME NEW s \in Schedules, Finish(s) PROVE TypeOK' /\ Control'
  <2>1. RecordedIds \subseteq Nat /\ FiringStatus(s) \in Statuses
    BY DEF RecordedIds, MintedId, FiringStatus, Statuses, FiringOK
  <2>2. \/ UNCHANGED tracker
        \/ \E i \in SUBSET Nat, st \in Statuses : Upsert(s, tickNow, NextOrBackoff(row[s]), i, st)
    BY <1>19, <2>1 DEF Finish, MintedId, Statuses
  <2>3. s \in todo
    BY <1>19 DEF Finish, FiringOK
  <2>4. NextOrBackoff(row[s]) \in Times /\ tickNow \in Times
    BY <1>14, <2>3 DEF TickOK, Times
  <2>5. TrackerOK'
    BY <2>2, <2>4 DEF Upsert, tracker, TrackerOK
  <2>6. /\ EndFiring /\ LeaveSchedule(s)
        /\ NoFault \/ Fault("tracker_write")
        /\ UNCHANGED <<clock, jobs, nRuns, userOps, rows, memory, seenVars>>
    BY <1>19 DEF Finish
  <2>7. TickOK' /\ Control'
    BY <1>19, <2>6 DEF LeaveSchedule, Drop, seenVars, TickOK
  <2>8. FiringOK'
    BY <2>6 DEF EndFiring, LeaveSchedule, FiringOK
  <2>9. WorldOK' /\ RowsOK' /\ MemoryOK'
    BY <2>6 DEF NoFault, Fault, rows, memory, WorldOK, RowsOK, MemoryOK
  <2>10. QED
    BY <2>5, <2>7, <2>9, <2>8
<1>20. CASE Crash
  <2>1. WorldOK' /\ RowsOK' /\ TrackerOK'
    BY <1>20 DEF Crash, Fault, rows, tracker, WorldOK, RowsOK, TrackerOK
  <2>2. MemoryOK' /\ FiringOK' /\ Control'
    BY <1>20 DEF Crash, EndFiring, Times, MemoryOK, FiringOK
  <2>3. TickOK'
    BY <1>20 DEF Crash, TickOK
  <2>4. QED
    BY <2>1, <2>2, <2>3
<1>21. CASE UNCHANGED vars
  BY <1>21 DEF vars, world, rows, tracker, memory, tickVars, seenVars, firing, WorldOK, RowsOK, TrackerOK, MemoryOK, TickOK, FiringOK
<1>22. QED
  BY <1>1, <1>2, <1>3, <1>4, <1>5, <1>6, <1>7, <1>8, <1>9, <1>10, <1>11, <1>12, <1>13, <1>15, <1>16, <1>17, <1>18, <1>19, <1>20, <1>21
     DEF Next, UserStep, SchedulerStep

(***************************************************************************)
(* The order of the timestamps.                                            *)
(***************************************************************************)
Timeline ==
  /\ tickNow <= clock
  /\ \A s \in Schedules : last[s] <= tickNow
  /\ NextAfterLast
  /\ stage = "due" => next[cur] # NoTime /\ next[cur] <= tickNow

(* Nothing has been fired in a fresh tracker. *)
LEMMA TimelineInit == Init => Timeline
PROOF
  BY DEF Init, Timeline, NextAfterLast, NoTime

(* Whatever next_run_at is computed after a tick's now keeps the order. *)
LEMMA UpsertKeepsOrder ==
  ASSUME TypeOK, Timeline, NEW s \in Schedules, NEW n \in Nat, n > tickNow,
         NEW l \in {last[s], tickNow},
         next' = [next EXCEPT ![s] = n], last' = [last EXCEPT ![s] = l],
         UNCHANGED tickNow
  PROVE  NextAfterLast' /\ \A r \in Schedules : last'[r] <= tickNow'
PROOF
  BY DEF TypeOK, TrackerOK, TickOK, Times, NoTime, Timeline, NextAfterLast

(* What Align writes is later than the firing already recorded. *)
LEMMA TargetKeepsOrder ==
  ASSUME TypeOK, Timeline, NEW s \in todo, Target(s) # NoTime, last[s] # NoTime
  PROVE  Target(s) >= last[s] /\ (s \in CronSchedules => Target(s) > last[s])
PROOF
<1> USE DEF NoTime
<1>1. row[s] \in Cadences /\ s \in Schedules /\ tickNow \in Nat /\ tickBefore \in Int
  BY DEF TypeOK, TickOK
<1>2. last[s] \in Nat /\ next[s] \in Nat /\ next[s] >= last[s] /\ tickNow >= last[s]
  BY <1>1 DEF TypeOK, TrackerOK, Times, Timeline, NextAfterLast
<1>3. CASE Reseeds(s)
  <2>1. s \in Configs /\ s \notin CronSchedules
    BY <1>2, <1>3, ScheduleAssumption DEF Reseeds, ScheduleAssumption
  <2>2. Target(s) = NextRun(row[s], tickBefore)
    BY <1>3, <2>1 DEF Target
  <2>3. Target(s) \in Nat /\ Target(s) > tickBefore
    BY <1>1, <2>2, NextRunIsLater
  <2>4. tickBefore >= tickNow - 1
    BY DEF TypeOK, TickOK
  <2>5. QED
    BY <1>1, <1>2, <2>1, <2>3, <2>4
<1>4. CASE ~Reseeds(s) /\ Target(s) = next[s]
  BY <1>1, <1>2, <1>4 DEF Timeline, NextAfterLast
<1>5. CASE ~Reseeds(s) /\ Target(s) # next[s]
  <2>1. Target(s) = NextRun(row[s], last[s])
    BY <1>2, <1>5 DEF Target
  <2>2. QED
    BY <1>1, <1>2, <2>1, NextRunIsLater
<1>6. QED
  BY <1>3, <1>4, <1>5

(* No step disturbs the order: time only moves forward, a tick's now is read
   from the clock between ticks, and every tracker write is one of the two
   kinds above. *)
LEMMA TimelineStep == TypeOK /\ Control /\ Timeline /\ [Next]_vars => Timeline'
PROOF
<1> SUFFICES ASSUME TypeOK, Control, Timeline, [Next]_vars PROVE Timeline'
  OBVIOUS
<1> DEFINE Kept == UNCHANGED <<next, last, tickNow>>
<1>1. ASSUME Kept, clock' >= clock, stage' # "due" \/ UNCHANGED <<stage, cur>> PROVE Timeline'
  <2>1. clock' \in Nat /\ clock \in Nat /\ tickNow \in Nat
    BY TypeStep DEF TypeOK, WorldOK, TickOK
  <2>2. QED
    BY <1>1, <2>1 DEF Timeline, NextAfterLast
<1>2. clock \in Nat /\ clock >= clock
  BY DEF TypeOK, WorldOK
<1>3. CASE Advance
  BY <1>1, <1>2, <1>3 DEF Advance, tracker, tickVars
<1>4. CASE UserStep
  BY <1>1, <1>2, <1>4 DEF UserStep, ManualRun, EditCadence, SetPaused, Notify, world, tracker, tickVars
<1>5. ASSUME NEW j \in jobs, JobEnds(j) PROVE Timeline'
  BY <1>1, <1>2, <1>5 DEF JobEnds, tracker, tickVars
<1>6. CASE BeginTick
  BY <1>6 DEF BeginTick, Control, world, tracker, Timeline, NextAfterLast, TypeOK, WorldOK, TickOK, TrackerOK, Times, NoTime
<1>7. CASE LoadRows \/ EndPhase \/ ReadActiveRuns
  BY <1>1, <1>2, <1>7 DEF LoadRows, EndPhase, ReadActiveRuns, world, tracker, tickVars
<1>8. ASSUME NEW s \in Schedules, PassPaused(s) \/ Defer(s) \/ StartFiring(s) PROVE Timeline'
  BY <1>1, <1>2, <1>8 DEF PassPaused, Defer, StartFiring, LeaveSchedule, Drop, world, tracker, tickVars
<1>9. ASSUME NEW ty \in {"dq", "profile"}, NEW t \in Tables, Submit(ty, t) PROVE Timeline'
  BY <1>1, <1>2, <1>9 DEF Submit, tracker, tickVars
<1>10. CASE Crash
  BY <1>1, <1>2, <1>10 DEF Crash, tracker
<1>11. CASE UNCHANGED vars
  BY <1>1, <1>2, <1>11 DEF vars, world, tracker, tickVars
<1>12. ASSUME NEW s \in todo, NEW l \in {last[s], tickNow}, NEW i, NEW st,
              Upsert(s, l, NextOrBackoff(row[s]), i, st), UNCHANGED <<clock, tickNow>>, stage' = "pick"
       PROVE  Timeline'
  <2>1. NextOrBackoff(row[s]) \in Nat /\ NextOrBackoff(row[s]) > tickNow /\ s \in Schedules
    BY NextRunIsLater, BoundAssumption DEF NextOrBackoff, BoundAssumption, TypeOK, TickOK, Times
  <2>2. NextAfterLast' /\ \A r \in Schedules : last'[r] <= tickNow'
    BY <1>12, <2>1, UpsertKeepsOrder DEF Upsert
  <2>3. QED
    BY <1>12, <2>2 DEF Timeline
<1>13. ASSUME NEW s \in Schedules, Skip(s) \/ TriggerFails(s) \/ Finish(s) PROVE Timeline'
  <2>1. s \in todo /\ UNCHANGED <<clock, tickNow>> /\ stage' = "pick"
    BY <1>13 DEF Skip, TriggerFails, Finish, LeaveSchedule, Drop, TypeOK, FiringOK
  <2>2. \/ UNCHANGED tracker
        \/ \E l \in {last[s], tickNow}, i \in {lastIds[s], {MintedId}, RecordedIds}, st \in {"skipped", "failed", FiringStatus(s)} :
              Upsert(s, l, NextOrBackoff(row[s]), i, st)
    BY <1>13 DEF Skip, TriggerFails, Finish
  <2>3. QED
    BY <1>1, <1>2, <1>12, <2>1, <2>2 DEF tracker
<1>14. ASSUME NEW s \in Schedules, Align(s) PROVE Timeline'
  <2>1. s \in todo /\ UNCHANGED <<clock, tickNow>>
    BY <1>14 DEF Align, Drop, tickVars
  <2>2. \/ UNCHANGED tracker
        \/ Target(s) # NoTime /\ Upsert(s, last[s], Target(s), lastIds[s], TargetStatus(s))
    BY <1>14 DEF Align
  <2>3. UNCHANGED last
    BY <2>2 DEF tracker, Upsert, TypeOK, TrackerOK
  <2>4. NextAfterLast'
    BY <2>1, <2>2, <2>3, TargetKeepsOrder DEF tracker, Upsert, Timeline, NextAfterLast, TypeOK, TrackerOK
  <2>5. ASSUME stage' = "due" PROVE cur' = s /\ next'[s] = Target(s) /\ Target(s) # NoTime /\ Target(s) <= tickNow
    BY <1>14, <2>5 DEF Align, Upsert, tracker, TypeOK, TrackerOK
  <2>6. QED
    BY <2>1, <2>3, <2>4, <2>5 DEF Timeline
<1>15. QED
  BY <1>3, <1>4, <1>5, <1>6, <1>7, <1>8, <1>9, <1>10, <1>11, <1>13, <1>14 DEF Next, SchedulerStep

(* The inductive invariant. *)
LEMMA Invariance == Spec => [](TypeOK /\ Control /\ Timeline)
PROOF
<1>1. Init => TypeOK /\ Control /\ Timeline
  BY TypeInit, TimelineInit
<1>2. TypeOK /\ Control /\ Timeline /\ [Next]_vars => (TypeOK /\ Control /\ Timeline)'
  BY TypeStep, TimelineStep
<1>3. QED
  BY <1>1, <1>2, PTL DEF Spec

(* Every reachable state of the scheduler is well typed: no tracker write, no
   failure path and no crash leaves a NULL or a stale schedule where the next
   step computes with it. *)
THEOREM TypeCorrect == Spec => []TypeOK
PROOF
  BY Invariance, PTL

(* next_run_at never falls back to or before the last recorded firing, for any
   set of schedules, cadences, faults and edits. *)
THEOREM NextStaysAfterLast == Spec => []NextAfterLast
PROOF
<1>1. Timeline => NextAfterLast
  BY DEF Timeline
<1>2. QED
  BY <1>1, Invariance, PTL

(* Every firing of a product or table schedule answers an occurrence that is
   due and that was not fired before. *)
THEOREM FiringsAreOwed == Spec => FiringIsOwed
PROOF
<1>1. TypeOK /\ Control /\ Timeline /\ [Next]_vars
      => [\A s \in CronSchedules : StartsFiring(s) => last[s] < next[s] /\ next[s] <= tickNow]_vars
  <2> SUFFICES ASSUME TypeOK, Timeline, NEW s \in CronSchedules, StartsFiring(s)
               PROVE  last[s] < next[s] /\ next[s] <= tickNow
    OBVIOUS
  <2>1. s \in Schedules /\ next[s] # NoTime /\ next[s] <= tickNow
    BY DEF StartsFiring, Timeline, CronSchedules, Schedules
  <2>2. next[s] \in Times /\ last[s] \in Times
    BY <2>1 DEF TypeOK, TrackerOK
  <2>3. QED
    BY <2>1, <2>2 DEF Timeline, NextAfterLast, Times, NoTime
<1>2. QED
  BY <1>1, Invariance, PTL DEF Spec, FiringIsOwed

(* A due next_run_at of a product or table schedule is taken away by nothing
   but that schedule's own firing, failure or recorded skip. *)
THEOREM OwedRunsAreKept == Spec => OwedRunIsNotLost
PROOF
<1>1. TypeOK /\ Control /\ Timeline /\ [Next]_vars => [\A s \in CronSchedules : ~LosesOwed(s)]_vars
  <2> SUFFICES ASSUME TypeOK, Control, Timeline, [Next]_vars, NEW s \in CronSchedules, LosesOwed(s)
               PROVE  FALSE
    OBVIOUS
  <2>1. s \in Schedules /\ next[s] \in Nat /\ tickNow \in Nat /\ next[s] <= tickNow /\ next'[s] # next[s]
    BY DEF LosesOwed, CronSchedules, Schedules, TypeOK, TrackerOK, TickOK, Times
  <2>2. ~UNCHANGED tracker
    BY <2>1 DEF tracker
  <2>3. PICK r \in Schedules : Align(r) \/ Skip(r) \/ TriggerFails(r) \/ Finish(r)
    <3>1. ~UNCHANGED vars /\ ~Advance /\ ~Crash /\ ~UserStep /\ \A j \in jobs : ~JobEnds(j)
      BY <2>2 DEF vars, Advance, Crash, UserStep, ManualRun, EditCadence, SetPaused, Notify, JobEnds
    <3>2. SchedulerStep
      BY <3>1 DEF Next
    <3>3. QED
      BY <2>2, <3>2 DEF SchedulerStep, BeginTick, LoadRows, EndPhase, PassPaused, Defer, ReadActiveRuns, StartFiring, Submit
  <2>4. r = s
    BY <2>1, <2>3 DEF Align, Skip, TriggerFails, Finish, Upsert, tracker, TypeOK, TrackerOK
  <2>5. CASE Align(r)
    <3>1. ~Reseeds(s) /\ Target(s) = next[s]
      BY <2>1, ScheduleAssumption DEF ScheduleAssumption, Reseeds, Target, NoTime
    <3>2. QED
      BY <2>2, <2>4, <2>5, <3>1 DEF Align
  <2>6. CASE Skip(r) \/ TriggerFails(r) \/ Finish(r)
    <3>1. cur = s /\ stage \in {"due", "firing"}
      BY <2>4, <2>6 DEF Skip, TriggerFails, Finish
    <3>2. FiringStatus(s) # "pending"
      BY DEF FiringStatus
    <3>3. status'[s] # "pending"
      BY <2>2, <2>4, <2>6, <3>2 DEF Skip, TriggerFails, Finish, Upsert, TypeOK, TrackerOK
    <3>4. QED
      BY <3>1, <3>3 DEF LosesOwed, Consumes
  <2>7. QED
    BY <2>3, <2>5, <2>6
<1>2. QED
  BY <1>1, Invariance, PTL DEF Spec, OwedRunIsNotLost

(***************************************************************************)
(* The snapshot of the Jobs API and the schedules it still stands for.     *)
(***************************************************************************)
JobsOf(s) == {j \in jobs : j.sched = s}

InPhase(s) ==
  \/ phase = "configs" /\ s \in Configs
  \/ phase = "products" /\ s \in Products
  \/ phase = "tables" /\ s \in TableScheds

(* The tick has yet to decide about schedule s. *)
Ahead(s) ==
  \/ s \in todo /\ ~(stage = "firing" /\ cur = s)
  \/ InPhase(s) /\ ~loaded
  \/ phase = "configs" /\ s \in CronSchedules
  \/ phase = "products" /\ s \in TableScheds

OnScope == \A j \in jobs : j.sched \in Schedules => j.table \in Scope[j.sched]

SnapshotCovers ==
  seenState = "listed" => \A s \in Schedules : Ahead(s) => JobsOf(s) \subseteq seenJobs

FiringIsFresh ==
  stage = "firing" =>
    /\ \A j \in LiveDq(cur) : <<"dq", j.table>> \notin subs
    /\ \A ty \in {"dq", "profile"}, t \in Tables : <<ty, t>> \in subs => t \in Scope[cur]

Snapshot ==
  /\ seenState # "unknown"
  /\ \A s \in todo : InPhase(s)
  /\ OnScope /\ SnapshotCovers /\ FiringIsFresh /\ NoSelfOverlap

(* A schedule whose jobs the snapshot covers fires only when none of its own
   DQ jobs is live. *)
LEMMA FiringMeansIdle ==
  ASSUME TypeOK, Timeline, Snapshot, NEW s \in todo, stage = "due", cur = s,
         seenState # "unread", OverlapDecision(s, Scope[s]) = "fire"
  PROVE  LiveDq(s) = {}
PROOF
<1> SUFFICES ASSUME NEW j \in LiveDq(s) PROVE FALSE
  OBVIOUS
<1>1. j \in jobs /\ j.sched = s /\ j.type = "dq" /\ clock - j.start <= InFlightMaxAge /\ s \in Schedules
  BY DEF LiveDq, TypeOK, TickOK
<1>2. j.table \in Scope[s]
  BY <1>1 DEF Snapshot, OnScope
<1>3. seenState = "listed"
  BY DEF Snapshot, TypeOK, TickOK
<1>4. Ahead(s)
  BY DEF Ahead
<1>5. j \in seenJobs
  BY <1>1, <1>3, <1>4 DEF Snapshot, SnapshotCovers, JobsOf
<1>6. Fresh(j.start)
  <2>1. j.start \in Nat /\ clock \in Nat /\ tickNow \in Nat /\ InFlightMaxAge \in Nat
    BY <1>1, BoundAssumption DEF BoundAssumption, TypeOK, WorldOK, TickOK, Job
  <2>2. QED
    BY <1>1, <2>1 DEF Fresh, Timeline
<1>7. QED
  BY <1>1, <1>2, <1>3, <1>5, <1>6 DEF OverlapDecision

(* Before the first tick no job runs and nothing is snapshotted. *)
LEMMA SnapshotInit == Init => Snapshot
PROOF
  BY DEF Init, Snapshot, OnScope, SnapshotCovers, FiringIsFresh, NoSelfOverlap, LiveDq

(* Every action keeps the snapshot invariant while the Jobs API and the member
   lists can be read. *)
LEMMA SnapshotStep ==
  ASSUME "jobs_api" \notin FaultKinds, "load" \notin FaultKinds
  PROVE  TypeOK /\ Control /\ Timeline /\ Snapshot /\ [Next]_vars => Snapshot'
PROOF
<1> SUFFICES ASSUME TypeOK, Control, Timeline, Snapshot, [Next]_vars PROVE Snapshot'
  OBVIOUS
<1>1. TypeOK'
  BY TypeStep
<1>2. \A j \in jobs : j.sched \in Schedules \cup {NoSchedule} /\ j.start \in Nat
  BY DEF TypeOK, WorldOK, Job
<1>3. clock \in Nat /\ clock' \in Nat /\ InFlightMaxAge \in Nat
  BY <1>1, BoundAssumption DEF BoundAssumption, TypeOK, WorldOK
\* Steps that start no scheduled job and begin no firing.
<1>4. ASSUME \A j \in jobs' : j \in jobs \/ j.sched = NoSchedule,
             clock' >= clock,
             stage' = "firing" => UNCHANGED <<stage, cur, subs>>
      PROVE  OnScope' /\ FiringIsFresh' /\ NoSelfOverlap'
  <2>1. \A s \in Schedules : LiveDq(s)' \subseteq LiveDq(s)
    BY <1>2, <1>3, <1>4, ScheduleAssumption DEF ScheduleAssumption, LiveDq
  <2>2. OnScope'
    BY <1>4, ScheduleAssumption DEF ScheduleAssumption, OnScope, Snapshot
  <2>3. NoSelfOverlap'
    BY <2>1 DEF NoSelfOverlap, Snapshot
  <2>4. FiringIsFresh'
    <3>1. SUFFICES ASSUME stage' = "firing" PROVE FiringIsFresh'
      BY DEF FiringIsFresh
    <3>2. cur \in Schedules /\ stage = "firing" /\ UNCHANGED <<cur, subs>>
      BY <1>4, <3>1 DEF TypeOK, FiringOK, TickOK
    <3>3. LiveDq(cur)' \subseteq LiveDq(cur)
      BY <2>1, <3>2 DEF LiveDq
    <3>4. QED
      BY <3>2, <3>3 DEF FiringIsFresh, Snapshot
  <2>5. QED
    BY <2>2, <2>3, <2>4
\* Steps that keep the snapshot and decide about no new schedule.
<1>5. ASSUME UNCHANGED seenVars, \A j \in jobs' : j \in jobs \/ j.sched = NoSchedule,
             \A s \in Schedules : Ahead(s)' => Ahead(s)
      PROVE  SnapshotCovers' /\ seenState' # "unknown"
  BY <1>5, ScheduleAssumption DEF ScheduleAssumption, seenVars, SnapshotCovers, Snapshot, JobsOf
<1>6. ASSUME NEW s \in todo PROVE loaded /\ InPhase(s) /\ s \in Schedules
  BY <1>6 DEF Control, Snapshot, TypeOK, TickOK
<1>7. CASE Advance \/ UNCHANGED vars \/ Notify \/ \E j \in jobs : JobEnds(j)
  <2>1. /\ \A j \in jobs' : j \in jobs
        /\ clock' >= clock
        /\ UNCHANGED <<stage, cur, subs, seenVars, todo, loaded, phase>>
    BY <1>3, <1>7 DEF Advance, vars, Notify, JobEnds, world, tickVars, firing
  <2>2. QED
    BY <1>4, <1>5, <2>1 DEF Snapshot, Ahead, InPhase
<1>8. CASE UserStep /\ ~Notify
  <2>1. /\ \A j \in jobs' : j \in jobs \/ j.sched = NoSchedule
        /\ clock' >= clock
        /\ UNCHANGED <<stage, cur, subs, seenVars, todo, loaded, phase>>
    BY <1>3, <1>8 DEF UserStep, ManualRun, EditCadence, SetPaused, tickVars, firing
  <2>2. QED
    BY <1>4, <1>5, <2>1 DEF Snapshot, Ahead, InPhase
<1>9. CASE BeginTick \/ Crash
  <2>1. /\ \A j \in jobs' : j \in jobs
        /\ clock' >= clock
        /\ stage' = "pick" /\ todo' = {} /\ seenState' = "unread"
    BY <1>3, <1>9 DEF BeginTick, Crash, Control, world
  <2>2. QED
    BY <1>4, <2>1 DEF Snapshot, SnapshotCovers
<1>10. CASE LoadRows
  <2>1. /\ \A j \in jobs' : j \in jobs
        /\ clock' >= clock
        /\ UNCHANGED <<stage, cur, subs, seenVars, phase>>
        /\ ~loaded /\ loaded' /\ todo' = PhaseSchedules /\ phase # "asleep"
    BY <1>3, <1>10 DEF LoadRows, Fault, firing
  <2>2. \A s \in todo' : InPhase(s) /\ InPhase(s)'
    BY <2>1 DEF PhaseSchedules, InPhase, TypeOK, TickOK
  <2>3. QED
    BY <1>4, <1>5, <2>1, <2>2 DEF Snapshot, Ahead, InPhase
<1>11. CASE EndPhase
  <2>1. /\ \A j \in jobs' : j \in jobs
        /\ clock' >= clock
        /\ UNCHANGED <<stage, cur, subs, todo>>
        /\ loaded /\ todo = {} /\ stage = "pick"
    BY <1>3, <1>11 DEF EndPhase, world, firing
  <2>2. OnScope' /\ FiringIsFresh' /\ NoSelfOverlap'
    BY <1>4, <2>1
  <2>3. CASE phase = "tables"
    BY <1>11, <2>1, <2>2, <2>3 DEF EndPhase, Snapshot, SnapshotCovers
  <2>4. CASE phase # "tables"
    <3>1. UNCHANGED seenVars /\ \A s \in Schedules : Ahead(s)' => Ahead(s)
      BY <1>11, <2>1, <2>4, ScheduleAssumption
         DEF ScheduleAssumption, EndPhase, seenVars, Ahead, InPhase, CronSchedules, Control, TypeOK, TickOK
    <3>2. QED
      BY <1>5, <2>1, <2>2, <3>1 DEF Snapshot
  <2>5. QED
    BY <2>3, <2>4
<1>12. CASE ReadActiveRuns
  <2>1. /\ \A j \in jobs' : j \in jobs
        /\ clock' >= clock
        /\ UNCHANGED <<stage, cur, subs, todo, phase, jobs>>
        /\ seenState' = "listed" /\ seenJobs' = jobs
    BY <1>3, <1>12 DEF ReadActiveRuns, Fault, tickVars, firing
  <2>2. QED
    BY <1>4, <2>1 DEF Snapshot, SnapshotCovers, JobsOf, InPhase
<1>13. ASSUME NEW s \in Schedules,
              PassPaused(s) \/ Align(s) \/ Defer(s) \/ Skip(s) \/ TriggerFails(s) \/ Finish(s)
       PROVE  Snapshot'
  <2>1. /\ \A j \in jobs' : j \in jobs
        /\ clock' >= clock
        /\ stage' # "firing"
        /\ UNCHANGED <<seenVars, phase, loaded>>
    BY <1>3, <1>13 DEF PassPaused, Align, Defer, Skip, TriggerFails, Finish, LeaveSchedule, Drop, world, tickVars
  <2>2. \/ todo' = todo \ {s} /\ (stage = "firing" => cur = s)
        \/ todo' = todo /\ stage # "firing"
    BY <1>13 DEF PassPaused, Align, Defer, Skip, TriggerFails, Finish, LeaveSchedule, Drop, tickVars
  <2>3. \A r \in Schedules : Ahead(r)' => Ahead(r)
    BY <1>6, <2>1, <2>2 DEF Ahead, InPhase
  <2>4. QED
    BY <1>4, <1>5, <2>1, <2>2, <2>3 DEF Snapshot, InPhase
<1>14. ASSUME NEW s \in Schedules, StartFiring(s) PROVE Snapshot'
  <2>1. /\ stage = "due" /\ cur = s /\ s \in todo /\ seenState # "unread"
        /\ stage' = "firing" /\ cur' = cur
        /\ UNCHANGED <<clock, jobs, seenVars, todo, phase, loaded>>
        /\ OverlapDecision(s, Scope[s]) = "fire"
        /\ subs' \subseteq DqSubRuns(s) \cup ProfileSubRuns(s)
    BY <1>14 DEF StartFiring, Fault, tickVars, TypeOK, FiringOK
  <2>2. LiveDq(s) = {}
    BY <2>1, FiringMeansIdle
  <2>3. OnScope' /\ NoSelfOverlap'
    BY <2>1 DEF Snapshot, OnScope, NoSelfOverlap, LiveDq
  <2>4. FiringIsFresh'
    BY <2>1, <2>2 DEF FiringIsFresh, LiveDq, DqSubRuns, ProfileSubRuns
  <2>5. \A r \in Schedules : Ahead(r)' => Ahead(r)
    BY <2>1 DEF Ahead, InPhase
  <2>6. QED
    BY <1>5, <2>1, <2>3, <2>4, <2>5 DEF Snapshot, InPhase
<1>15. ASSUME NEW ty \in {"dq", "profile"}, NEW t \in Tables, Submit(ty, t) PROVE Snapshot'
  <2> DEFINE new == [id |-> nRuns + 1, sched |-> cur, table |-> t, type |-> ty, start |-> clock]
  <2>1. /\ stage = "firing" /\ cur \in todo /\ <<ty, t>> \in subs
        /\ subs' = subs \ {<<ty, t>>}
        /\ jobs' = jobs \/ jobs' = jobs \cup {new}
        /\ UNCHANGED <<clock, stage, cur, seenVars, todo, phase, loaded>>
    BY <1>15 DEF Submit, NewJob, tickVars, TypeOK, FiringOK
  <2>2. cur \in Schedules /\ loaded /\ InPhase(cur) /\ ~Ahead(cur)
    BY <1>6, <2>1, ScheduleAssumption DEF ScheduleAssumption, Ahead, InPhase, CronSchedules
  <2>3. t \in Scope[cur]
    BY <2>1 DEF Snapshot, FiringIsFresh
  <2>4. new.sched = cur /\ new.table = t /\ new.type = ty
    OBVIOUS
  <2> HIDE DEF new
  <2>5. OnScope'
    BY <2>1, <2>2, <2>3, <2>4 DEF Snapshot, OnScope
  <2>6. SnapshotCovers' /\ seenState' # "unknown"
    <3>1. \A r \in Schedules : Ahead(r)' => Ahead(r) /\ r # cur
      BY <2>1, <2>2 DEF Ahead, InPhase
    <3>2. \A r \in Schedules : r # cur => JobsOf(r)' = JobsOf(r)
      BY <2>1, <2>4 DEF JobsOf
    <3>3. QED
      BY <2>1, <3>1, <3>2 DEF Snapshot, SnapshotCovers, seenVars
  <2>7. \A s \in Schedules : \A j \in LiveDq(s)' :
          j \in LiveDq(s) \/ (j = new /\ s = cur /\ ty = "dq")
    BY <2>1, <2>4 DEF LiveDq
  <2>8. ty = "dq" => \A j \in LiveDq(cur) : j.table # t
    BY <2>1 DEF Snapshot, FiringIsFresh
  <2>9. NoSelfOverlap'
    BY <2>4, <2>7, <2>8 DEF Snapshot, NoSelfOverlap
  <2>10. FiringIsFresh'
    BY <2>1, <2>2, <2>4, <2>7 DEF Snapshot, FiringIsFresh
  <2>11. QED
    BY <2>1, <2>5, <2>6, <2>9, <2>10 DEF Snapshot, InPhase
<1>16. QED
  BY <1>7, <1>8, <1>9, <1>10, <1>11, <1>12, <1>13, <1>14, <1>15 DEF Next, SchedulerStep

(* As long as the Jobs API and the member list can be read, two live DQ jobs of
   one schedule never work on the same table: neither a crash between the
   submission and the tracker write, nor a lost tracker write, nor a run whose
   id was never recorded makes the scheduler fire over itself. *)
THEOREM OwnRunsNeverOverlap ==
  ASSUME "jobs_api" \notin FaultKinds, "load" \notin FaultKinds
  PROVE  Spec => []NoSelfOverlap
PROOF
<1>1. Init => Snapshot
  BY SnapshotInit
<1>2. TypeOK /\ Control /\ Timeline /\ Snapshot /\ [Next]_vars => Snapshot'
  BY SnapshotStep
<1>3. Snapshot => NoSelfOverlap
  BY DEF Snapshot
<1>4. QED
  BY <1>1, <1>2, <1>3, Invariance, PTL DEF Spec
=============================================================================
