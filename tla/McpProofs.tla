----------------------------- MODULE McpProofs -----------------------------
(***************************************************************************)
(* What is proved of McpServer: runs are private, their inputs are there   *)
(* when their job starts, and their results when their caller asks; for    *)
(* any users, calls, periods of keeping and intervals between sweeps. Of   *)
(* TaskRunner, the job itself, whatever it reads and whatever fails:       *)
(* JobInv says which rows there are at each of its steps. And of Setup,    *)
(* which finds or creates that job: what is locked is Studio's, READY is   *)
(* earned and what is shown as settled was, for any names and any number   *)
(* of saves, changes and ends of the process; Settled says what each step  *)
(* of a walk can rely on.                                                  *)
(***************************************************************************)
EXTENDS McpServer, Integers, SequenceTheorems, FiniteSetTheorems, WellFoundedInduction, TLAPS

-----------------------------------------------------------------------------
(* The inductive invariant *)

CallTypes ==
  [step : {"none", "prepared", "failed", "swept", "submitted"}, user : Users \cup {None}, kind : Kinds, at : Nat, lost : BOOLEAN]
RunTypes ==
  [life : {"none", "QUEUED", "RUNNING", "TERMINATED"}, result : {"none", "SUCCESS", "FAILED", "CANCELED"},
   user : Users \cup {None}, starved : BOOLEAN, at : Nat]

TypeInv ==
  /\ calls \in [Calls -> CallTypes]
  /\ runs \in [Calls -> RunTypes]
  /\ views \subseteq Calls
  /\ files \subseteq {"staged", "result"} \X Calls \X Nat
  /\ clock \in Nat

\* A run is that of its call, which knows of it unless its answer was lost.
RunInv ==
  \A c \in Calls : runs[c].life # "none" =>
    /\ runs[c].user = calls[c].user
    /\ calls[c].step = "submitted" \/ (calls[c].step = "failed" /\ calls[c].lost)

\* What is kept is there until it is due, from the preparation to the start of the job ...
Awaited(c) == calls[c].step \in {"prepared", "swept", "submitted"} /\ runs[c].life \in {"none", "QUEUED"}
Kept(c) ==
  /\ calls[c].kind = "view" => c \in views \/ clock - calls[c].at > _VIEW_TTL_SECONDS
  /\ calls[c].kind = "staged" => <<"staged", c, calls[c].at>> \in files \/ clock - calls[c].at > _STAGED_TTL_SECONDS
InputInv == \A c \in Calls : Awaited(c) => Kept(c)

\* ... and a job that started without its input did so later.
KeptFor(c) == IF calls[c].kind = "view" THEN _VIEW_TTL_SECONDS ELSE _STAGED_TTL_SECONDS
StarvedInv ==
  \A c \in Calls : /\ runs[c].at <= clock
                   /\ runs[c].starved => /\ runs[c].life # "none"
                                         /\ calls[c].lost \/ runs[c].at - calls[c].at > KeptFor(c)

ResultInv ==
  \A c \in Calls :
    /\ runs[c].life = "TERMINATED" <=> runs[c].result # "none"
    /\ runs[c].result = "SUCCESS" => <<"result", c, runs[c].at>> \in files \/ clock - runs[c].at > _RESULT_TTL_SECONDS

McpInv == TypeInv /\ RunInv /\ InputInv /\ StarvedInv /\ ResultInv

-----------------------------------------------------------------------------
(* The steps *)

(* A sweep takes only what is due, and nothing else goes with it. *)
LEMMA SweepTakesWhatIsDue ==
  ASSUME Sweep
  PROVE  /\ views' \subseteq views /\ views \subseteq views' \cup StaleViews
         /\ files' \subseteq files /\ files \subseteq files' \cup StaleFiles
  BY DEF Sweep, _maybe_sweep_stale_views, StaleViews, StaleFiles

(* Preparing a call sets its entry, its view or its file. *)
LEMMA PrepareKeeps ==
  ASSUME McpInv, NEW c \in Calls, NEW u \in Users \cup {None}, NEW kind \in Kinds, Prepare(c, u, kind)
  PROVE  McpInv'
PROOF
<1>1. TypeInv /\ RunInv /\ InputInv /\ StarvedInv /\ ResultInv
  BY DEF McpInv
<1>2. PICK step \in {"prepared", "failed"} :
        /\ calls' = [calls EXCEPT ![c] = [calls[c] EXCEPT !.step = step, !.user = u, !.kind = kind, !.at = clock]]
        /\ \/ step = "failed" /\ UNCHANGED <<views, files>>
           \/ views' = (IF kind = "view" THEN views \cup {c} ELSE views)
              /\ files' = (IF kind = "staged" THEN files \cup {<<"staged", c, clock>>} ELSE files)
  BY DEF Prepare
<1> DEFINE entry == [calls[c] EXCEPT !.step = step, !.user = u, !.kind = kind, !.at = clock]
<1>3. calls[c].step = "none" /\ UNCHANGED <<runs, _last_sweep_at, clock>> /\ calls[c] \in CallTypes /\ clock \in Nat
  BY <1>1 DEF Prepare, TypeInv
<1>4. /\ entry \in CallTypes /\ entry.step = step /\ entry.user = u /\ entry.kind = kind /\ entry.at = clock
  BY <1>3 DEF CallTypes
<1> HIDE DEF entry
<1>5. calls' = [calls EXCEPT ![c] = entry] /\ calls'[c] = entry /\ \A d \in Calls : d # c => calls'[d] = calls[d]
  BY <1>1, <1>2 DEF entry, TypeInv
<1>6. runs[c].life = "none"
  BY <1>1, <1>3 DEF RunInv
<1>7. TypeInv'
  <2>1. <<"staged", c, clock>> \in {"staged", "result"} \X Calls \X Nat
    BY <1>3
  <2>2. QED
    BY <1>1, <1>2, <1>3, <1>4, <1>5, <2>1 DEF TypeInv
<1>8. RunInv'
  BY <1>1, <1>3, <1>5, <1>6 DEF RunInv
<1>9. InputInv'
  <2>1. views \subseteq views' /\ files \subseteq files'
    BY <1>2
  <2>2. ASSUME NEW d \in Calls, d # c, Awaited(d)'
        PROVE  Kept(d)'
    BY <1>1, <1>3, <1>5, <2>1, <2>2 DEF InputInv, Awaited, Kept
  <2>3. Awaited(c)' => Kept(c)'
    BY <1>2, <1>4, <1>5 DEF Awaited, Kept
  <2>4. QED
    BY <2>2, <2>3 DEF InputInv
<1>10. StarvedInv'
  <2>1. ASSUME NEW d \in Calls
        PROVE  /\ runs'[d].at <= clock'
               /\ runs'[d].starved => /\ runs'[d].life # "none"
                                      /\ calls'[d].lost \/ runs'[d].at - calls'[d].at > KeptFor(d)'
    <3>1. CASE d = c
      BY <1>1, <1>3, <1>6, <3>1 DEF StarvedInv
    <3>2. CASE d # c
      BY <1>1, <1>3, <1>5, <3>2 DEF StarvedInv, KeptFor
    <3>3. QED
      BY <3>1, <3>2
  <2>2. QED
    BY <2>1 DEF StarvedInv
<1>11. ResultInv'
  <2>1. files \subseteq files'
    BY <1>2
  <2>2. QED
    BY <1>1, <1>3, <2>1 DEF ResultInv
<1>12. QED
  BY <1>7, <1>8, <1>9, <1>10, <1>11 DEF McpInv

(* The sweep of a call leaves what is kept until it is due. *)
LEMMA SweepKeeps ==
  ASSUME McpInv, McpAssumption, NEW c \in Calls, SweepFirst(c)
  PROVE  McpInv'
PROOF
<1>1. TypeInv /\ RunInv /\ InputInv /\ StarvedInv /\ ResultInv
  BY DEF McpInv
<1>2. calls' = [calls EXCEPT ![c].step = "swept"] /\ calls[c].step = "prepared" /\ UNCHANGED <<runs, clock>>
  BY DEF SweepFirst
<1>3. /\ views' \subseteq views /\ views \subseteq views' \cup StaleViews
      /\ files' \subseteq files /\ files \subseteq files' \cup StaleFiles
  BY SweepTakesWhatIsDue DEF SweepFirst
<1>4. /\ calls' \in [Calls -> CallTypes]
      /\ \A d \in Calls : /\ calls'[d].user = calls[d].user /\ calls'[d].kind = calls[d].kind
                          /\ calls'[d].at = calls[d].at /\ calls'[d].lost = calls[d].lost
                          /\ calls'[d].step = IF d = c THEN "swept" ELSE calls[d].step
  BY <1>1, <1>2 DEF TypeInv, CallTypes
<1>5. TypeInv'
  BY <1>1, <1>2, <1>3, <1>4 DEF TypeInv
<1>6. RunInv'
  BY <1>1, <1>2, <1>4 DEF RunInv
<1>7. ASSUME NEW d \in Calls, Awaited(d)'
      PROVE  Kept(d)'
  <2>1. Kept(d)
    BY <1>1, <1>2, <1>4, <1>7 DEF InputInv, Awaited
  <2>2. d \in StaleViews => clock - calls[d].at > _VIEW_TTL_SECONDS
    BY DEF StaleViews
  <2>3. <<"staged", d, calls[d].at>> \in StaleFiles => clock - calls[d].at > _STAGED_TTL_SECONDS
    BY DEF StaleFiles, TTLOf
  <2>4. QED
    BY <1>2, <1>3, <1>4, <2>1, <2>2, <2>3 DEF Kept
<1>8. StarvedInv'
  BY <1>1, <1>2, <1>4 DEF StarvedInv, KeptFor
<1>9. ResultInv'
  <2>1. ASSUME NEW d \in Calls, <<"result", d, runs[d].at>> \in StaleFiles
        PROVE  clock - runs[d].at > _RESULT_TTL_SECONDS
    BY <2>1 DEF StaleFiles, TTLOf
  <2>2. QED
    BY <1>1, <1>2, <1>3, <2>1 DEF ResultInv
<1>10. QED
  BY <1>5, <1>6, <1>7, <1>8, <1>9 DEF McpInv, InputInv

(* A job that is submitted is its caller's, also when the answer is lost. *)
LEMMA SubmitKeeps ==
  ASSUME McpInv, NEW c \in Calls, SubmitJob(c)
  PROVE  McpInv'
PROOF
<1>1. TypeInv /\ RunInv /\ InputInv /\ StarvedInv /\ ResultInv
  BY DEF McpInv
<1>2. calls[c].step = "swept" /\ UNCHANGED <<files, clock>> /\ views' \subseteq views /\ views \subseteq views' \cup {c}
  BY DEF SubmitJob
<1>3. runs[c].life = "none" /\ calls[c] \in CallTypes /\ runs[c] \in RunTypes /\ clock \in Nat
  BY <1>1, <1>2 DEF RunInv, TypeInv
<1>4. Run(c) \in RunTypes
  BY <1>3 DEF Run, RunTypes, CallTypes
<1>5. PICK entry \in CallTypes :
        /\ calls' = [calls EXCEPT ![c] = entry]
        /\ entry.user = calls[c].user /\ entry.kind = calls[c].kind /\ entry.at = calls[c].at
        /\ \/ runs' = [runs EXCEPT ![c] = Run(c)] /\ entry.step = "submitted" /\ UNCHANGED views
           \/ runs' = [runs EXCEPT ![c] = Run(c)] /\ entry.step = "failed" /\ entry.lost
           \/ runs' = runs /\ entry.step = "failed"
  <2>1. CASE runs' = [runs EXCEPT ![c] = Run(c)] /\ calls' = [calls EXCEPT ![c].step = "submitted"] /\ UNCHANGED views
    <3>1. [calls[c] EXCEPT !.step = "submitted"] \in CallTypes
      BY <1>3 DEF CallTypes
    <3>2. QED
      BY <1>3, <2>1, <3>1 DEF CallTypes
  <2>2. CASE runs' = [runs EXCEPT ![c] = Run(c)] /\ calls' = [calls EXCEPT ![c].step = "failed", ![c].lost = TRUE]
    <3>1. [calls[c] EXCEPT !.step = "failed", !.lost = TRUE] \in CallTypes
      BY <1>3 DEF CallTypes
    <3>2. calls' = [calls EXCEPT ![c] = [calls[c] EXCEPT !.step = "failed", !.lost = TRUE]]
      BY <1>1, <1>3, <2>2 DEF TypeInv, CallTypes
    <3>3. QED
      BY <1>3, <2>2, <3>1, <3>2 DEF CallTypes
  <2>3. CASE runs' = runs /\ calls' = [calls EXCEPT ![c].step = "failed"]
    <3>1. [calls[c] EXCEPT !.step = "failed"] \in CallTypes
      BY <1>3 DEF CallTypes
    <3>2. QED
      BY <1>3, <2>3, <3>1 DEF CallTypes
  <2>4. QED
    BY <2>1, <2>2, <2>3 DEF SubmitJob
<1>6. /\ calls'[c] = entry /\ \A d \in Calls : d # c => calls'[d] = calls[d] /\ runs'[d] = runs[d]
      /\ calls' \in [Calls -> CallTypes] /\ runs' \in [Calls -> RunTypes]
  BY <1>1, <1>4, <1>5 DEF TypeInv
<1>7. runs'[c] = Run(c) \/ (runs'[c] = runs[c] /\ entry.step = "failed")
  BY <1>1, <1>5 DEF TypeInv
<1>8. TypeInv'
  BY <1>1, <1>2, <1>6 DEF TypeInv
<1>9. RunInv'
  <2>1. ASSUME runs'[c].life # "none"
        PROVE  runs'[c].user = entry.user /\ (entry.step = "submitted" \/ (entry.step = "failed" /\ entry.lost))
    BY <1>1, <1>3, <1>5, <1>7, <2>1 DEF Run, TypeInv
  <2>2. QED
    BY <1>1, <1>6, <2>1 DEF RunInv
<1>10. InputInv'
  <2>1. ASSUME Awaited(c)'
        PROVE  Kept(c)'
    <3>1. entry.step = "submitted" /\ UNCHANGED views
      BY <1>5, <1>6, <2>1 DEF Awaited
    <3>2. Kept(c)
      BY <1>1, <1>2, <1>3 DEF InputInv, Awaited
    <3>3. QED
      BY <1>2, <1>5, <1>6, <3>1, <3>2 DEF Kept
  <2>2. ASSUME NEW d \in Calls, d # c, Awaited(d)'
        PROVE  Kept(d)'
    BY <1>1, <1>2, <1>6, <2>2 DEF InputInv, Awaited, Kept
  <2>3. QED
    BY <2>1, <2>2 DEF InputInv
<1>11. Run(c).at = clock /\ ~Run(c).starved /\ Run(c).life = "QUEUED" /\ Run(c).result = "none" /\ clock <= clock
  BY <1>3 DEF Run
<1>12. StarvedInv'
  <2>1. runs'[c].at <= clock' /\ ~runs'[c].starved
    BY <1>1, <1>2, <1>3, <1>7, <1>11 DEF StarvedInv
  <2>2. QED
    BY <1>1, <1>2, <1>6, <2>1 DEF StarvedInv, KeptFor
<1>13. ResultInv'
  BY <1>1, <1>2, <1>6, <1>7, <1>11 DEF ResultInv
<1>14. QED
  BY <1>8, <1>9, <1>10, <1>12, <1>13 DEF McpInv

(* A run that goes on, or ends, is still the one of its call; what it has to *)
(* be true of its next entry for the invariant to be kept.                   *)
LEMMA RunKeeps ==
  ASSUME McpInv, McpAssumption, NEW c \in Calls, NEW next \in RunTypes, runs' = [runs EXCEPT ![c] = next], UNCHANGED <<calls, clock>>,
         views' \subseteq views, views \subseteq views' \cup {c},
         files \subseteq files', files' \subseteq files \cup {<<"result", c, clock>>},
         runs[c].life # "none", next.life \in {"RUNNING", "TERMINATED"}, next.user = runs[c].user, next.at = clock,
         next.starved => \/ runs[c].starved
                         \/ calls[c].lost \/ clock - calls[c].at > KeptFor(c),
         next.life = "TERMINATED" <=> next.result # "none",
         next.result = "SUCCESS" => <<"result", c, clock>> \in files'
  PROVE  McpInv'
PROOF
<1>1. TypeInv /\ RunInv /\ InputInv /\ StarvedInv /\ ResultInv
  BY DEF McpInv
<1>2. runs' \in [Calls -> RunTypes] /\ runs'[c] = next /\ \A d \in Calls : d # c => runs'[d] = runs[d]
  BY <1>1 DEF TypeInv
<1>3. TypeInv'
  <2>1. <<"result", c, clock>> \in {"staged", "result"} \X Calls \X Nat
    BY <1>1 DEF TypeInv
  <2>2. QED
    BY <1>1, <1>2, <2>1 DEF TypeInv
<1>4. RunInv'
  BY <1>1, <1>2 DEF RunInv
<1>5. InputInv'
  <2>1. ASSUME NEW d \in Calls, Awaited(d)'
        PROVE  Kept(d)'
    <3>1. d # c
      BY <1>2, <2>1 DEF Awaited
    <3>2. QED
      BY <1>1, <1>2, <2>1, <3>1 DEF InputInv, Awaited, Kept
  <2>2. QED
    BY <2>1 DEF InputInv
<1>6. StarvedInv'
  <2>1. clock <= clock /\ (next.starved => calls[c].lost \/ clock - calls[c].at > KeptFor(c))
    <3>1. clock \in Nat /\ runs[c].at \in Nat /\ calls[c].at \in Nat /\ runs[c].at <= clock
      BY <1>1 DEF TypeInv, StarvedInv, CallTypes, RunTypes
    <3>2. CASE runs[c].starved
      <4>1. calls[c].lost \/ runs[c].at - calls[c].at > KeptFor(c)
        <5>1. runs[c].starved => calls[c].lost \/ runs[c].at - calls[c].at > KeptFor(c)
          BY <1>1, Zenon DEF StarvedInv
        <5>2. QED
          BY <3>2, <5>1
      <4>2. KeptFor(c) \in Int => (runs[c].at - calls[c].at > KeptFor(c) => clock - calls[c].at > KeptFor(c))
        BY <3>1
      <4>3. KeptFor(c) \in Int
        BY DEF McpAssumption, KeptFor
      <4>4. QED
        BY <3>1, <4>1, <4>2, <4>3
    <3>3. QED
      BY <3>1, <3>2
  <2>2. QED
    BY <1>1, <1>2, <2>1 DEF StarvedInv, KeptFor
<1>7. ResultInv'
  BY <1>1, <1>2 DEF ResultInv
<1>8. QED
  BY <1>3, <1>4, <1>5, <1>6, <1>7 DEF McpInv

(* A job that finds its input gone was late, or its answer was lost. *)
LEMMA OperateKeeps ==
  ASSUME McpInv, McpAssumption, NEW c \in Calls, Operate(c)
  PROVE  McpInv'
PROOF
<1>1. TypeInv /\ RunInv /\ InputInv
  BY DEF McpInv
<1>2. runs[c].life = "QUEUED" /\ UNCHANGED <<calls, files, clock>> /\ runs[c] \in RunTypes /\ calls[c] \in CallTypes /\ clock \in Nat
  BY <1>1 DEF Operate, TypeInv
<1>3. PICK ok \in BOOLEAN : runs' = [runs EXCEPT ![c].life = IF ok THEN "RUNNING" ELSE "TERMINATED",
                                                 ![c].result = IF ok THEN "none" ELSE "FAILED",
                                                 ![c].starved = ~Has(c), ![c].at = clock]
  BY DEF Operate
<1> DEFINE next == [runs[c] EXCEPT !.life = IF ok THEN "RUNNING" ELSE "TERMINATED",
                                   !.result = IF ok THEN "none" ELSE "FAILED", !.starved = ~Has(c), !.at = clock]
<1>4. Has(c) \in BOOLEAN
  <2>1. CASE calls[c].kind = "view"
    BY <2>1 DEF Has
  <2>2. CASE calls[c].kind = "staged"
    BY <2>2 DEF Has
  <2>3. CASE calls[c].kind = "plain"
    BY <2>3 DEF Has
  <2>4. QED
    BY <1>2, <2>1, <2>2, <2>3 DEF CallTypes, Kinds
<1>5. runs' = [runs EXCEPT ![c] = next]
  BY <1>1, <1>2, <1>3 DEF TypeInv, RunTypes
<1>6. /\ next \in RunTypes /\ next.user = runs[c].user /\ next.at = clock /\ next.starved = ~Has(c)
      /\ next.life \in {"RUNNING", "TERMINATED"} /\ (next.life = "TERMINATED" <=> next.result # "none") /\ next.result # "SUCCESS"
  BY <1>2, <1>4 DEF RunTypes
<1> HIDE DEF next
<1>7. ~Has(c) => calls[c].lost \/ clock - calls[c].at > KeptFor(c)
  <2>1. CASE calls[c].step = "submitted"
    <3>1. Kept(c)
      BY <1>1, <1>2, <2>1 DEF InputInv, Awaited
    <3>2. CASE calls[c].kind = "view"
      BY <3>1, <3>2 DEF Kept, Has, KeptFor
    <3>3. CASE calls[c].kind = "staged"
      <4>1. <<"staged", c, calls[c].at>>[1] = "staged" /\ <<"staged", c, calls[c].at>>[2] = c
        OBVIOUS
      <4>2. <<"staged", c, calls[c].at>> \in files => Has(c)
        BY <3>3, <4>1 DEF Has
      <4>3. QED
        BY <3>1, <3>3, <4>2 DEF Kept, KeptFor
    <3>4. CASE calls[c].kind = "plain"
      BY <3>4 DEF Has
    <3>5. QED
      BY <1>2, <3>2, <3>3, <3>4 DEF CallTypes, Kinds
  <2>2. QED
    BY <1>1, <1>2, <2>1 DEF RunInv
<1>8. views' \subseteq views /\ views \subseteq views' \cup {c}
  BY DEF Operate
<1>9. QED
  BY <1>2, <1>5, <1>6, <1>7, <1>8, RunKeeps

(* A run that is killed, or that writes its result, ends. *)
LEMMA EndKeeps ==
  ASSUME McpInv, McpAssumption, NEW c \in Calls, Killed(c) \/ WriteResult(c)
  PROVE  McpInv'
PROOF
<1>1. TypeInv /\ StarvedInv
  BY DEF McpInv
<1>2. runs[c].life \in {"QUEUED", "RUNNING"} /\ UNCHANGED <<calls, views, clock>> /\ runs[c] \in RunTypes /\ clock \in Nat
  BY <1>1 DEF Killed, WriteResult, TypeInv
<1>3. PICK result \in {"CANCELED", "SUCCESS"} :
        /\ runs' = [runs EXCEPT ![c].life = "TERMINATED", ![c].result = result, ![c].at = clock]
        /\ IF result = "SUCCESS" THEN files' = files \cup {<<"result", c, clock>>} ELSE files' = files
  BY DEF Killed, WriteResult
<1> DEFINE next == [runs[c] EXCEPT !.life = "TERMINATED", !.result = result, !.at = clock]
<1>4. runs' = [runs EXCEPT ![c] = next]
  BY <1>1, <1>2, <1>3 DEF TypeInv, RunTypes
<1>5. /\ next \in RunTypes /\ next.user = runs[c].user /\ next.at = clock /\ next.starved = runs[c].starved
      /\ next.life = "TERMINATED" /\ next.result = result
  BY <1>2 DEF RunTypes
<1> HIDE DEF next
<1>6. runs[c].life # "none" /\ files \subseteq files' /\ files' \subseteq files \cup {<<"result", c, clock>>}
      /\ (next.result = "SUCCESS" => <<"result", c, clock>> \in files')
  BY <1>2, <1>3, <1>5
<1>7. QED
  BY <1>2, <1>4, <1>5, <1>6, RunKeeps

(* Time only makes more due. *)
LEMMA TickKeeps ==
  ASSUME McpInv, McpAssumption, Tick
  PROVE  McpInv'
PROOF
<1>1. TypeInv /\ RunInv /\ InputInv /\ StarvedInv /\ ResultInv
  BY DEF McpInv
<1>2. clock' = clock + 1 /\ clock \in Nat /\ UNCHANGED <<calls, runs, views, files>>
  BY <1>1 DEF Tick, TypeInv
<1>3. ASSUME NEW t \in Nat, NEW limit \in Nat
      PROVE  clock - t > limit => clock' - t > limit
  BY <1>2, <1>3
<1>4. ASSUME NEW c \in Calls
      PROVE  calls[c].at \in Nat /\ runs[c].at \in Nat
  BY <1>1 DEF TypeInv, CallTypes, RunTypes
<1>5. _VIEW_TTL_SECONDS \in Nat /\ _STAGED_TTL_SECONDS \in Nat /\ _RESULT_TTL_SECONDS \in Nat
  BY DEF McpAssumption
<1>6. TypeInv' /\ RunInv'
  BY <1>1, <1>2 DEF TypeInv, RunInv
<1>7. InputInv'
  BY <1>1, <1>2, <1>3, <1>4, <1>5 DEF InputInv, Awaited, Kept
<1>8. StarvedInv'
  BY <1>1, <1>2, <1>4 DEF StarvedInv, KeptFor
<1>9. ResultInv'
  BY <1>1, <1>2, <1>3, <1>4, <1>5 DEF ResultInv
<1>10. QED
  BY <1>6, <1>7, <1>8, <1>9 DEF McpInv

(* Every step keeps the invariant. *)
LEMMA McpStep ==
  ASSUME McpInv, McpAssumption, [Next]_mcpVars
  PROVE  McpInv'
PROOF
<1>1. ASSUME NEW c \in Calls, NEW u \in Users \cup {None}, NEW kind \in Kinds, Prepare(c, u, kind)
      PROVE  McpInv'
  BY <1>1, PrepareKeeps
<1>2. ASSUME NEW c \in Calls, SweepFirst(c)
      PROVE  McpInv'
  BY <1>2, SweepKeeps
<1>3. ASSUME NEW c \in Calls, SubmitJob(c)
      PROVE  McpInv'
  BY <1>3, SubmitKeeps
<1>4. ASSUME NEW c \in Calls, Operate(c)
      PROVE  McpInv'
  BY <1>4, OperateKeeps
<1>5. ASSUME NEW c \in Calls, Killed(c) \/ WriteResult(c)
      PROVE  McpInv'
  BY <1>5, EndKeeps
<1>6. CASE Tick
  BY <1>6, TickKeeps
<1>7. CASE UNCHANGED mcpVars
  BY <1>7 DEF mcpVars, McpInv, TypeInv, RunInv, InputInv, Awaited, Kept, StarvedInv, KeptFor, ResultInv
<1>8. QED
  BY <1>1, <1>2, <1>3, <1>4, <1>5, <1>6, <1>7 DEF Next

-----------------------------------------------------------------------------
(* What follows from it *)

(* What a caller is told of a run, case by case. *)
LEMMA WhatIsTold ==
  ASSUME McpInv, NEW c \in Calls, NEW u
  PROVE  LET status == _get_run_status_once(c, u) IN
         /\ status # "not_found" => runs[c].life # "none" /\ MayRead(c, u)
         /\ status \in {"completed", "failed"} => runs[c].life = "TERMINATED"
         /\ status = "completed" => runs[c].result = "SUCCESS"
         /\ status = "failed" => runs[c].result # "SUCCESS" \/ ~\E f \in files : f[1] = "result" /\ f[2] = c
PROOF
<1> DEFINE status == _get_run_status_once(c, u)
           Listed == \E f \in files : f[1] = "result" /\ f[2] = c
<1>1. runs[c].life \in {"none", "QUEUED", "RUNNING", "TERMINATED"}
  BY DEF McpInv, TypeInv, RunTypes
<1>2. CASE runs[c].life = "none" \/ ~MayRead(c, u)
  <2>1. status = "not_found"
    BY <1>2 DEF _get_run_status_once, StillRunning, MayRead
  <2>2. QED
    BY <2>1
<1>3. CASE runs[c].life # "none" /\ MayRead(c, u) /\ runs[c].life \in StillRunning
  <2>1. status = "running"
    BY <1>3 DEF _get_run_status_once, StillRunning, MayRead
  <2>2. QED
    BY <1>3, <2>1
<1>4. CASE runs[c].life # "none" /\ MayRead(c, u) /\ runs[c].life \notin StillRunning
  <2>1. status = IF runs[c].result = "SUCCESS" /\ Listed THEN "completed" ELSE "failed"
    BY <1>4 DEF _get_run_status_once
  <2>2. QED
    BY <1>1, <1>4, <2>1 DEF StillRunning
<1>5. QED
  BY <1>2, <1>3, <1>4

(* The invariant is about calls, runs and files, what was promised about answers. *)
LEMMA WordFollows ==
  ASSUME McpInv, McpAssumption
  PROVE  McpKeepsItsWord
PROOF
<1>1. RunsArePrivate
  <2>1. ASSUME NEW c \in Calls, NEW u \in Users \cup {None}, _get_run_status_once(c, u) # "not_found"
        PROVE  u # None /\ u = calls[c].user
    <3>1. runs[c].life # "none" /\ MayRead(c, u)
      BY <2>1, WhatIsTold
    <3>2. QED
      BY <3>1 DEF McpInv, RunInv, MayRead
  <2>2. QED
    BY <2>1 DEF RunsArePrivate
<1>2. InputsOutliveTheQueue
  BY DEF McpInv, StarvedInv, KeptFor, InputsOutliveTheQueue
<1>3. ResultsAreThereInTime
  <2>1. ASSUME NEW c \in Calls, NEW u \in Users
        PROVE  /\ _get_run_status_once(c, u) = "completed" => runs[c].result = "SUCCESS"
               /\ _get_run_status_once(c, u) = "failed" /\ clock - runs[c].at <= _RESULT_TTL_SECONDS
                    => runs[c].result \in {"FAILED", "CANCELED"}
    <3>1. _get_run_status_once(c, u) = "completed" => runs[c].result = "SUCCESS"
      BY WhatIsTold
    <3>2. ASSUME _get_run_status_once(c, u) = "failed", clock - runs[c].at <= _RESULT_TTL_SECONDS
          PROVE  runs[c].result \in {"FAILED", "CANCELED"}
      <4>1. /\ runs[c].result \in {"SUCCESS", "FAILED", "CANCELED"}
            /\ runs[c].result # "SUCCESS" \/ ~\E f \in files : f[1] = "result" /\ f[2] = c
        BY <3>2, WhatIsTold DEF McpInv, TypeInv, RunTypes, ResultInv
      <4>2. runs[c].result # "SUCCESS"
        <5>1. runs[c].result = "SUCCESS" => <<"result", c, runs[c].at>> \in files \/ clock - runs[c].at > _RESULT_TTL_SECONDS
          BY DEF McpInv, ResultInv
        <5>2. ~(clock - runs[c].at > _RESULT_TTL_SECONDS)
          BY <3>2 DEF McpInv, TypeInv, RunTypes, McpAssumption
        <5>3. <<"result", c, runs[c].at>>[1] = "result" /\ <<"result", c, runs[c].at>>[2] = c
          OBVIOUS
        <5>4. QED
          BY <4>1, <5>1, <5>2, <5>3
      <4>3. QED
        BY <4>1, <4>2
    <3>3. QED
      BY <3>1, <3>2
  <2>2. QED
    BY <2>1 DEF ResultsAreThereInTime
<1>4. QED
  BY <1>1, <1>2, <1>3 DEF McpKeepsItsWord

-----------------------------------------------------------------------------
(* The theorem *)

(* Only the user a run was submitted for learns of it; no job finds its view *)
(* or its staged file gone unless it waited longer than that is kept, or its *)
(* caller was told it had not been submitted; and the end of a run is told   *)
(* as it was while its result is kept (get_run_result).                      *)
THEOREM McpServerKeepsItsWord ==
  ASSUME McpAssumption
  PROVE  Spec => []McpKeepsItsWord
PROOF
<1>1. Init => McpInv
  <2> SUFFICES ASSUME Init
               PROVE  McpInv
    OBVIOUS
  <2>1. TypeInv
    BY DEF Init, TypeInv, CallTypes, RunTypes, Kinds
  <2>2. RunInv /\ InputInv
    BY DEF Init, RunInv, InputInv, Awaited
  <2>3. StarvedInv /\ ResultInv
    BY DEF Init, StarvedInv, ResultInv
  <2>4. QED
    BY <2>1, <2>2, <2>3 DEF McpInv
<1>2. McpInv /\ [Next]_mcpVars => McpInv'
  BY McpStep
<1>3. McpInv => McpKeepsItsWord
  BY WordFollows
<1>4. QED
  BY <1>1, <1>2, <1>3, PTL DEF Spec

-----------------------------------------------------------------------------
(* TaskRunner: one run, from its configuration to the rows it leaves.  One
   scan is what the row and the metrics speak of; every other scan may meet
   another table.  JobInv says which rows there are at each step, and that they
   speak of that scan. *)

CONSTANTS Contents, ShownRows, SummaryRows, _SQL_QUARANTINE_MAX_ROWS, MaxLosses
VARIABLES config, runner, table, seen, results, quarantine, metrics, left

Job == INSTANCE TaskRunner WITH MaxFaults <- MaxLosses

-----------------------------------------------------------------------------
(* TaskRunner: what is counted *)

(* A set is counted alike by the module and by the library of theorems. *)
LEMMA CountedAlike ==
  ASSUME NEW S
  PROVE  Job!Cardinality(S) = Cardinality(S)
PROOF
<1>1. QED
  BY Zenon DEF Job!Cardinality, Cardinality

\* What the configurations have in common.
ConfigInv ==
  /\ config.task \in {"profile", "dryrun", "scheduled"} /\ config.is_sql \in BOOLEAN /\ config.skip \in BOOLEAN
  /\ config.checks \in SUBSET {"e", "w"} /\ config.sample \in {0, 1} /\ config.run_type \in {None, "scheduled"}
  /\ config.is_sql => config.checks = {"e"}
  /\ config.skip => config.task = "dryrun"

(* The configurations that are submitted are such. *)
LEMMA ConfigsAreSound ==
  config \in Job!Configs => ConfigInv
PROOF
<1> SUFFICES ASSUME config \in Job!Configs
             PROVE  ConfigInv
  OBVIOUS
<1> DEFINE P == Job!Config("profile", FALSE, {0, 1}, FALSE, {None})
           D(q) == Job!Config("dryrun", q, {0, 1}, TRUE, {None}) \cup Job!Config("dryrun", q, {0, 1}, FALSE, {None, "scheduled"})
                     \cup Job!Config("scheduled", q, {1}, FALSE, {None})
<1>1. config \in P \/ \E q \in BOOLEAN : config \in D(q)
  BY DEF Job!Configs
<1>2. ASSUME config \in P
      PROVE  ConfigInv
  BY <1>2 DEF Job!Config, ConfigInv
<1>3. ASSUME NEW q \in BOOLEAN, config \in D(q)
      PROVE  ConfigInv
  BY <1>3 DEF Job!Config, ConfigInv
<1>4. QED
  BY <1>1, <1>2, <1>3

\* Metrics that add up with the number of invalid rows.
Adds(m, invalid) ==
  /\ {m.input, m.valid, m.error, m.warning, invalid} \subseteq Nat
  /\ m.input = m.valid + invalid
  /\ invalid <= m.error + m.warning /\ m.error <= invalid /\ m.warning <= invalid
  /\ m.per_check \in [config.checks -> Nat]
  /\ invalid > 0 => \E c \in config.checks : m.per_check[c] > 0

(* What one scan observes adds up. *)
LEMMA ScansAddUp ==
  ASSUME ConfigInv, NEW S, IsFiniteSet(S)
  PROVE  Adds(Job!Observe(S), Job!Cardinality(Job!Invalid(S)))
PROOF
<1> DEFINE E == {i \in S : \E c \in Job!Failed(i) : Job!Level(c) = "error"}
           W == {i \in S : \E c \in Job!Failed(i) : Job!Level(c) = "warning"}
           I == Job!Invalid(S)
           Of(c) == {i \in S : c \in Job!Failed(i)}
<1>1. I \subseteq S /\ E \subseteq I /\ W \subseteq I /\ I \subseteq E \cup W
  BY DEF Job!Invalid, Job!Level
<1>2. \A i : Job!Failed(i) \subseteq config.checks
  BY DEF Job!Failed
<1>3. IsFiniteSet(I) /\ IsFiniteSet(E) /\ IsFiniteSet(W) /\ IsFiniteSet(S \ I) /\ \A c : IsFiniteSet(Of(c))
  <2> HIDE DEF I, E, W
  <2>1. \A T : T \subseteq S => IsFiniteSet(T)
    BY FS_Subset
  <2>2. \A c : Of(c) \subseteq S
    OBVIOUS
  <2>3. QED
    BY <1>1, <2>1, <2>2
<1>4. Cardinality(S) = Cardinality(S \ I) + Cardinality(I)
  <2> HIDE DEF I
  <2>1. Cardinality(S \ I) = Cardinality(S) - Cardinality(S \cap I)
    BY FS_Difference
  <2>2. S \cap I = I
    BY <1>1
  <2>3. Cardinality(S) \in Nat /\ Cardinality(I) \in Nat
    BY <1>3, FS_CardinalityType
  <2>4. QED
    BY <2>1, <2>2, <2>3
<1>5. Cardinality(E) <= Cardinality(I) /\ Cardinality(W) <= Cardinality(I)
  <2> HIDE DEF I, E, W
  <2>1. QED
    BY <1>1, <1>3, FS_Subset
<1>6. Cardinality(I) <= Cardinality(E) + Cardinality(W)
  <2> HIDE DEF I, E, W
  <2>1. IsFiniteSet(E \cup W) /\ Cardinality(E \cup W) = Cardinality(E) + Cardinality(W) - Cardinality(E \cap W)
    BY <1>3, FS_Union
  <2>2. Cardinality(I) <= Cardinality(E \cup W)
    BY <1>1, <2>1, FS_Subset
  <2>3. IsFiniteSet(E \cap W)
    BY <1>3, FS_Intersection
  <2>4. QED
    BY <1>3, <2>1, <2>2, <2>3, FS_CardinalityType
<1>7. Cardinality(I) > 0 => \E c \in config.checks : Cardinality(Of(c)) > 0
  <2> SUFFICES ASSUME Cardinality(I) > 0
               PROVE  \E c \in config.checks : Cardinality(Of(c)) > 0
    OBVIOUS
  <2>1. PICK i \in I : TRUE
    BY FS_EmptySet
  <2>2. PICK c \in Job!Failed(i) : TRUE
    BY <2>1 DEF Job!Invalid
  <2>3. i \in Of(c) /\ c \in config.checks
    BY <1>1, <1>2, <2>1, <2>2
  <2> HIDE DEF Of, I
  <2>4. Cardinality(Of(c)) \in Nat /\ Cardinality(Of(c)) # 0
    BY <1>3, <2>3, FS_EmptySet, FS_CardinalityType
  <2>5. QED
    BY <2>3, <2>4
<1>8. /\ Job!Observe(S).input = Cardinality(S) /\ Job!Observe(S).valid = Cardinality(S \ I)
      /\ Job!Observe(S).error = Cardinality(E) /\ Job!Observe(S).warning = Cardinality(W)
      /\ Job!Observe(S).per_check = [c \in config.checks |-> Cardinality(Of(c))]
      /\ Job!Cardinality(Job!Invalid(S)) = Cardinality(I)
  BY CountedAlike DEF Job!Observe, Job!CountOf
<1>9. /\ {Cardinality(S), Cardinality(S \ I), Cardinality(E), Cardinality(W), Cardinality(I)} \subseteq Nat
      /\ \A c : Cardinality(Of(c)) \in Nat
  <2> HIDE DEF I, E, W, Of
  <2>1. QED
    BY <1>3, FS_CardinalityType
<1> HIDE DEF I, E, W, Of
<1>10. QED
  BY <1>4, <1>5, <1>6, <1>7, <1>8, <1>9 DEF Adds

-----------------------------------------------------------------------------
(* TaskRunner: the inductive invariant *)

Working == {"resolve", "count", "profile", "show", "row", "quarantine", "metrics"}
Ending == {"finally", "drop", "ended"}

JobType ==
  /\ ConfigInv
  /\ runner \in [step : Working \cup Ending, known : BOOLEAN, cleanup : BOOLEAN, code : {0, 1}, faults : Nat]
  /\ table \in [rows : Seq(SUBSET {"e", "w"}), changed : BOOLEAN]
  /\ DOMAIN seen = {"observed", "live", "invalid"}

(* A row that says of the run what its one scan observed. *)
Success(r) ==
  /\ r.status = "SUCCESS"
  /\ config.task # "profile" =>
       /\ Adds(seen.observed, seen.invalid)
       /\ r.run_type = Job!RunType
       /\ r.total = seen.observed.input /\ r.valid = seen.observed.valid /\ r.invalid = seen.invalid
       /\ r.error = seen.observed.error /\ r.warning = seen.observed.warning
       /\ \A c \in DOMAIN r.summary : r.summary[c] > 0
       /\ r.invalid > 0 => DOMAIN r.summary # {}

(* A row that says that it failed. *)
Failure(r) == r.status = "FAILED" /\ (runner.known /\ config.task # "profile" => r.run_type = Job!RunType)

Nothing == Len(results) = 0 /\ results = <<>>
Succeeded == Len(results) = 1 /\ results = <<results[1]>> /\ Success(results[1])
FailedOnly == Len(results) = 1 /\ results = <<results[1]>> /\ Failure(results[1])
FailedLater == Len(results) = 2 /\ results = <<results[1], results[2]>> /\ Success(results[1]) /\ Failure(results[2])

(* While the run goes on, it has appended what its step says. *)
OnItsWay ==
  /\ runner.step \in Working => runner.code = 0 /\ metrics = None
  /\ runner.step \in {"resolve", "count", "profile", "show", "row"} => Nothing
  /\ runner.step \in {"resolve", "count", "profile", "show", "row", "quarantine"} => quarantine = None
  /\ runner.step \in {"show", "row"} => Adds(seen.observed, seen.invalid)
  /\ runner.step = "profile" => config.task = "profile"
  /\ runner.step \in {"show", "row", "quarantine", "metrics"} => config.task # "profile"
  /\ runner.step \in {"quarantine", "metrics"} => Succeeded /\ ~config.skip
  /\ config.skip => quarantine = None /\ metrics = None

(* When it ends, its exit tells its rows. *)
AtItsEnd ==
  /\ runner.step \in Ending /\ runner.code = 0 => Succeeded /\ (metrics # None \/ config.task = "profile" \/ config.skip)
  /\ runner.step \in Ending /\ runner.code = 1 =>
       /\ metrics = None
       /\ Nothing \/ FailedOnly \/ FailedLater \/ (Succeeded /\ config.task # "profile" /\ ~config.skip)
       /\ runner.faults = 0 => FailedOnly \/ FailedLater
  /\ metrics # None => metrics.values = seen.observed

(* Unless the table changes, all that is invalid is found, and put aside. *)
AllFound ==
  ~table.changed /\ Job!SampleSize = 0 =>
    /\ runner.step \in {"show", "row", "quarantine"} => seen.invalid = Job!Cardinality(Job!Invalid(DOMAIN table.rows))
    /\ runner.step = "metrics" \/ metrics # None =>
         (IF quarantine = None THEN 0 ELSE quarantine) =
           IF config.is_sql /\ seen.invalid > _SQL_QUARANTINE_MAX_ROWS THEN _SQL_QUARANTINE_MAX_ROWS ELSE seen.invalid

(* A configuration that stays was kept by a failure. *)
CleanedUp == runner.step \in {"drop", "ended"} /\ runner.cleanup /\ "config" \in left => runner.faults > 0

JobInv == JobType /\ OnItsWay /\ AtItsEnd /\ AllFound /\ CleanedUp

\* What is assumed of the constants: numbers are numbers, and None is neither a
\* number nor a row of metrics.
JobAssumption ==
  /\ Contents \subseteq Seq(SUBSET {"e", "w"})
  /\ SummaryRows \in Nat \ {0} /\ _SQL_QUARANTINE_MAX_ROWS \in Nat /\ MaxLosses \in Nat
  /\ None \notin Nat
  /\ \A v, l, f, q, c : None # [values |-> v, labels |-> l, fingerprint |-> f, quarantined |-> q, custom |-> c]

(* A scan reads rows of the view, and all of them where there is no limit. *)
LEMMA ScansReadRows ==
  ASSUME table.rows \in Seq(SUBSET {"e", "w"}), NEW limit, NEW S \in Job!Limited(limit)
  PROVE  S \subseteq DOMAIN table.rows /\ IsFiniteSet(S) /\ (limit = 0 => S = DOMAIN table.rows)
PROOF
<1>1. IsFiniteSet(DOMAIN table.rows)
  <2>1. DOMAIN table.rows = 1..Len(table.rows) /\ Len(table.rows) \in Nat
    OBVIOUS
  <2>2. QED
    BY <2>1, FS_Interval
<1>2. S \subseteq DOMAIN table.rows /\ (limit = 0 => S = DOMAIN table.rows)
  BY DEF Job!Limited, Job!kSubset
<1>3. QED
  BY <1>1, <1>2, FS_Subset

(* A summary names failed checks, and at least one where rows are invalid. *)
LEMMA SummariesNameFailures ==
  ASSUME JobAssumption, ConfigInv, NEW m, NEW invalid, Adds(m, invalid), NEW T \in Job!_check_metrics_to_error_summary(m)
  PROVE  T \subseteq config.checks /\ (\A c \in T : m.per_check[c] > 0) /\ (invalid > 0 => T # {})
PROOF
<1> DEFINE F == {c \in config.checks : m.per_check[c] > 0}
<1>1. T \subseteq F
  BY DEF Job!_check_metrics_to_error_summary
<1>2. Cardinality(T) = IF Cardinality(F) > SummaryRows THEN SummaryRows ELSE Cardinality(F)
  BY CountedAlike DEF Job!_check_metrics_to_error_summary
<1>3. IsFiniteSet(F) /\ Cardinality(F) \in Nat
  <2>1. F \subseteq {"e", "w"}
    BY DEF ConfigInv
  <2>2. IsFiniteSet({"e", "w"})
    <3>1. IsFiniteSet({"e"})
      BY FS_Singleton
    <3>2. {"e", "w"} = {"e"} \cup {"w"}
      OBVIOUS
    <3>3. QED
      BY <3>1, <3>2, FS_AddElement
  <2>3. QED
    BY <2>1, <2>2, FS_Subset, FS_CardinalityType
<1>4. invalid > 0 => T # {}
  <2> SUFFICES ASSUME invalid > 0, T = {}
               PROVE  FALSE
    OBVIOUS
  <2>1. F # {}
    BY DEF Adds
  <2>2. Cardinality(T) = 0
    BY FS_EmptySet
  <2>3. Cardinality(F) = 0
    BY <1>2, <1>3, <2>2 DEF JobAssumption
  <2>4. QED
    BY <1>3, <2>1, <2>3, FS_EmptySet
<1>5. QED
  BY <1>1, <1>4

(* Appending to what there may be. *)
LEMMA Appending ==
  ASSUME NEW r
  PROVE  /\ Nothing /\ results' = Append(results, r) => Len(results') = 1 /\ results' = <<r>> /\ results'[1] = r
         /\ Len(results) = 1 /\ results = <<results[1]>> /\ results' = Append(results, r) =>
              Len(results') = 2 /\ results' = <<results[1], r>> /\ results'[1] = results[1] /\ results'[2] = r
PROOF
<1>1. Append(<<>>, r) = <<r>>
  OBVIOUS
<1>2. \A a : Append(<<a>>, r) = <<a, r>>
  <2> TAKE a
  <2>1. /\ Append(<<a>>, r) \in Seq({a, r}) /\ Len(Append(<<a>>, r)) = 2
        /\ Append(<<a>>, r)[1] = a /\ Append(<<a>>, r)[2] = r
    <3>1. <<a>> \in Seq({a, r}) /\ Len(<<a>>) = 1 /\ <<a>>[1] = a
      OBVIOUS
    <3>2. QED
      BY <3>1, AppendProperties
  <2>2. <<a, r>> \in Seq({a, r}) /\ Len(<<a, r>>) = 2 /\ <<a, r>>[1] = a /\ <<a, r>>[2] = r
    OBVIOUS
  <2> DEFINE s == Append(<<a>>, r)
             t == <<a, r>>
  <2> HIDE DEF s, t
  <2>3. s \in Seq({a, r}) /\ t \in Seq({a, r}) /\ Len(s) = 2 /\ Len(t) = 2 /\ s[1] = t[1] /\ s[2] = t[2]
    BY <2>1, <2>2 DEF s, t
  <2>4. \A i \in 1..2 : i = 1 \/ i = 2
    OBVIOUS
  <2>5. \A i \in 1..Len(s) : s[i] = t[i]
    BY <2>3, <2>4
  <2>6. s = t
    BY <2>3, <2>5, SeqEqual
  <2>7. QED
    BY <2>6 DEF s, t
<1>3. ASSUME Nothing, results' = Append(results, r)
      PROVE  Len(results') = 1 /\ results' = <<r>> /\ results'[1] = r
  BY <1>1, <1>3 DEF Nothing
<1>4. ASSUME Len(results) = 1, results = <<results[1]>>, results' = Append(results, r)
      PROVE  Len(results') = 2 /\ results' = <<results[1], r>> /\ results'[1] = results[1] /\ results'[2] = r
  BY <1>2, <1>4
<1>5. QED
  BY <1>3, <1>4

(* What was appended keeps its meaning while its subject stays as it is. *)
LEMMA RowsKeepTheirMeaning ==
  ASSUME config' = config, results' = results, runner'.known = runner.known,
         seen'.observed = seen.observed, seen'.invalid = seen.invalid
  PROVE  /\ Nothing => Nothing'
         /\ Succeeded => Succeeded'
         /\ FailedOnly => FailedOnly'
         /\ FailedLater => FailedLater'
PROOF
<1>1. ASSUME NEW r
      PROVE  (Success(r) => Success(r)') /\ (Failure(r) => Failure(r)')
  BY <1>1 DEF Success, Failure, Adds, Job!RunType
<1>2. QED
  BY <1>1 DEF Nothing, Succeeded, FailedOnly, FailedLater

-----------------------------------------------------------------------------
(* TaskRunner: its steps *)

(* The run begins with nothing said. *)
LEMMA JobBegins ==
  ASSUME JobAssumption
  PROVE  Job!Init => JobInv
PROOF
<1> SUFFICES ASSUME Job!Init
             PROVE  JobInv
  OBVIOUS
<1>1. ConfigInv
  BY ConfigsAreSound DEF Job!Init
<1>2. /\ runner = [step |-> "resolve", known |-> FALSE, cleanup |-> FALSE, code |-> 0, faults |-> 0]
      /\ table \in [rows : Seq(SUBSET {"e", "w"}), changed : BOOLEAN]
      /\ DOMAIN seen = {"observed", "live", "invalid"}
      /\ results = <<>> /\ quarantine = None /\ metrics = None
  BY DEF Job!Init, JobAssumption
<1>3. JobType
  BY <1>1, <1>2 DEF JobType, Working, Ending
<1>4. OnItsWay
  BY <1>2 DEF OnItsWay, Working, Nothing
<1>5. AtItsEnd /\ AllFound /\ CleanedUp
  BY <1>2 DEF AtItsEnd, AllFound, CleanedUp, Ending
<1>6. QED
  BY <1>3, <1>4, <1>5 DEF JobInv

(* What a step leaves in the runner. *)
LEMMA Going ==
  ASSUME JobType, NEW from, NEW to \in Working \cup Ending, Job!Go(from, to)
  PROVE  /\ runner.step = from /\ runner'.step = to /\ runner'.known = runner.known /\ runner'.cleanup = runner.cleanup
         /\ runner'.code = runner.code /\ runner'.faults = runner.faults
         /\ runner' \in [step : Working \cup Ending, known : BOOLEAN, cleanup : BOOLEAN, code : {0, 1}, faults : Nat]
PROOF
<1>1. runner \in [step : Working \cup Ending, known : BOOLEAN, cleanup : BOOLEAN, code : {0, 1}, faults : Nat]
  BY DEF JobType
<1> HIDE DEF Working, Ending
<1>2. QED
  BY <1>1 DEF Job!Go

(* The configuration is read. *)
LEMMA ResolveKeeps ==
  ASSUME JobAssumption, JobInv, Job!_resolve_run_config
  PROVE  JobInv'
PROOF
<1>1. /\ runner.step = "resolve" /\ runner'.step = "count" /\ runner'.code = runner.code
      /\ runner' \in [step : Working \cup Ending, known : BOOLEAN, cleanup : BOOLEAN, code : {0, 1}, faults : Nat]
  <2>1. runner \in [step : Working \cup Ending, known : BOOLEAN, cleanup : BOOLEAN, code : {0, 1}, faults : Nat]
    BY DEF JobInv, JobType
  <2>2. "count" \in Working \cup Ending /\ (config.stored # "inline") \in BOOLEAN
    BY DEF Working
  <2>3. QED
    BY <2>1, <2>2 DEF Job!_resolve_run_config
<1>2. UNCHANGED <<config, table, seen, results, quarantine, metrics, left>>
  BY DEF Job!_resolve_run_config
<1>3. runner.code = 0 /\ metrics = None /\ Nothing /\ quarantine = None
  BY <1>1 DEF JobInv, OnItsWay, Working
<1>4. JobType'
  BY <1>1, <1>2 DEF JobInv, JobType, ConfigInv, Working, Ending
<1>5. OnItsWay'
  BY <1>1, <1>2, <1>3 DEF OnItsWay, Nothing
<1>6. AtItsEnd' /\ AllFound' /\ CleanedUp'
  BY <1>1, <1>2, <1>3 DEF AtItsEnd, AllFound, CleanedUp, Ending
<1>7. QED
  BY <1>4, <1>5, <1>6 DEF JobInv

(* The first scan. *)
LEMMA CountKeeps ==
  ASSUME JobAssumption, JobInv, Job!Count
  PROVE  JobInv'
PROOF
<1>1. /\ runner.step = "count" /\ runner'.step = (IF config.task = "profile" THEN "profile" ELSE "show") /\ runner'.code = runner.code
      /\ runner' \in [step : Working \cup Ending, known : BOOLEAN, cleanup : BOOLEAN, code : {0, 1}, faults : Nat]
  BY Going DEF JobInv, Job!Count, Working
<1>2. UNCHANGED <<config, table, results, quarantine, metrics, left>>
  BY DEF Job!Count
<1>3. runner.code = 0 /\ metrics = None /\ Nothing /\ quarantine = None /\ ConfigInv
  BY <1>1 DEF JobInv, JobType, OnItsWay, Working
<1>4. PICK S \in Job!Limited(IF config.task = "profile" THEN 0 ELSE Job!SampleSize) :
        seen' = [observed |-> Job!Observe(S), live |-> Job!Observe(S), invalid |-> Job!Cardinality(Job!Invalid(S))]
  BY DEF Job!Count
<1>5. IsFiniteSet(S) /\ (config.task # "profile" /\ Job!SampleSize = 0 => S = DOMAIN table.rows)
  BY ScansReadRows DEF JobInv, JobType
<1>6. Adds(seen'.observed, seen'.invalid) /\ Adds(seen.observed, seen.invalid)' /\ DOMAIN seen' = {"observed", "live", "invalid"}
  <2>1. Adds(Job!Observe(S), Job!Cardinality(Job!Invalid(S)))
    BY <1>3, <1>5, ScansAddUp
  <2>2. Adds(seen'.observed, seen'.invalid)
    BY <1>4, <2>1
  <2>3. QED
    BY <1>2, <1>4, <2>2 DEF Adds
<1>7. JobType'
  BY <1>1, <1>2, <1>6 DEF JobInv, JobType, ConfigInv, Working, Ending
<1>8. OnItsWay'
  BY <1>1, <1>2, <1>3, <1>6 DEF OnItsWay, Nothing
<1>9. AtItsEnd' /\ CleanedUp'
  BY <1>1, <1>2, <1>3 DEF AtItsEnd, CleanedUp, Ending
<1>10. AllFound'
  <2>1. config.task # "profile" /\ Job!SampleSize = 0 => seen'.invalid = Job!Cardinality(Job!Invalid(DOMAIN table.rows))
    BY <1>4, <1>5
  <2>2. config.task = "profile" => runner'.step = "profile"
    BY <1>1
  <2>3. Job!SampleSize' = Job!SampleSize /\ Job!Cardinality(Job!Invalid(DOMAIN table.rows))' = Job!Cardinality(Job!Invalid(DOMAIN table.rows))
    BY <1>2 DEF Job!SampleSize, Job!Invalid, Job!Failed, Job!Cardinality
  <2>4. QED
    BY <1>1, <1>2, <1>3, <2>1, <2>2, <2>3 DEF AllFound
<1>11. QED
  BY <1>7, <1>8, <1>9, <1>10 DEF JobInv

(* The counts of a table stay what they are while it does. *)
LEMMA CountsStay ==
  ASSUME config' = config, table' = table
  PROVE  /\ Job!SampleSize' = Job!SampleSize
         /\ Job!Cardinality(Job!Invalid(DOMAIN table.rows))' = Job!Cardinality(Job!Invalid(DOMAIN table.rows))
PROOF
<1>1. QED
  BY DEF Job!SampleSize, Job!Invalid, Job!Failed, Job!Cardinality

(* The profile is written. *)
LEMMA ProfileKeeps ==
  ASSUME JobAssumption, JobInv, Job!_run_profile
  PROVE  JobInv'
PROOF
<1>1. /\ runner.step = "profile" /\ runner'.step = "finally" /\ runner'.code = runner.code
      /\ runner' \in [step : Working \cup Ending, known : BOOLEAN, cleanup : BOOLEAN, code : {0, 1}, faults : Nat]
  BY Going DEF JobInv, Job!_run_profile, Ending
<1>2. UNCHANGED <<config, table, seen, quarantine, metrics, left>>
  BY DEF Job!_run_profile
<1>3. runner.code = 0 /\ metrics = None /\ Nothing /\ quarantine = None /\ config.task = "profile"
  BY <1>1 DEF JobInv, OnItsWay, Working
<1>4. PICK r : r.status = "SUCCESS" /\ results' = Append(results, r)
  BY DEF Job!_run_profile
<1>5. Succeeded'
  <2>1. Len(results') = 1 /\ results' = <<r>> /\ results'[1] = r
    BY <1>3, <1>4, Appending
  <2>2. QED
    BY <1>2, <1>3, <1>4, <2>1 DEF Succeeded, Success
<1>6. JobType'
  BY <1>1, <1>2 DEF JobInv, JobType, ConfigInv, Working, Ending
<1>7. OnItsWay' /\ AtItsEnd' /\ AllFound' /\ CleanedUp'
  BY <1>1, <1>2, <1>3, <1>5 DEF OnItsWay, AtItsEnd, AllFound, CleanedUp, Working, Ending
<1>8. QED
  BY <1>6, <1>7 DEF JobInv

(* Some rows are collected for the row of the run. *)
LEMMA ShowKeeps ==
  ASSUME JobAssumption, JobInv, Job!Show
  PROVE  JobInv'
PROOF
<1>1. /\ runner.step = "show" /\ runner'.step = "row" /\ runner'.code = runner.code
      /\ runner' \in [step : Working \cup Ending, known : BOOLEAN, cleanup : BOOLEAN, code : {0, 1}, faults : Nat]
  BY Going DEF JobInv, Job!Show, Working
<1>2. UNCHANGED <<config, table, results, quarantine, metrics, left>>
  BY DEF Job!Show
<1>3. runner.code = 0 /\ metrics = None /\ Nothing /\ quarantine = None /\ config.task # "profile" /\ Adds(seen.observed, seen.invalid)
  BY <1>1 DEF JobInv, OnItsWay, Working
<1>4. DOMAIN seen' = {"observed", "live", "invalid"} /\ seen'.observed = seen.observed /\ seen'.invalid = seen.invalid
  <2>1. DOMAIN seen = {"observed", "live", "invalid"}
    BY DEF JobInv, JobType
  <2>2. seen' = seen \/ \E v : seen' = [seen EXCEPT !.live = v]
    BY DEF Job!Show
  <2>3. QED
    BY <2>1, <2>2
<1>5. JobType'
  BY <1>1, <1>2, <1>4 DEF JobInv, JobType, ConfigInv, Working, Ending
<1>6. Adds(seen.observed, seen.invalid)'
  BY <1>2, <1>3, <1>4 DEF Adds
<1>7. OnItsWay'
  BY <1>1, <1>2, <1>3, <1>6 DEF OnItsWay, Nothing
<1>8. AtItsEnd' /\ CleanedUp'
  BY <1>1, <1>2, <1>3 DEF AtItsEnd, CleanedUp, Ending
<1>9. AllFound'
  BY <1>1, <1>2, <1>3, <1>4, CountsStay DEF JobInv, AllFound
<1>10. QED
  BY <1>5, <1>7, <1>8, <1>9 DEF JobInv

(* The row of the run is written: what its one scan observed. *)
LEMMA RowKeeps ==
  ASSUME JobAssumption, JobInv, Job!_run_dryrun
  PROVE  JobInv'
PROOF
<1>1. /\ runner.step = "row" /\ runner'.step = (IF Job!RunType = "preview" THEN "finally" ELSE "quarantine") /\ runner'.code = runner.code
      /\ runner' \in [step : Working \cup Ending, known : BOOLEAN, cleanup : BOOLEAN, code : {0, 1}, faults : Nat]
  BY Going DEF JobInv, Job!_run_dryrun, Working, Ending
<1>2. UNCHANGED <<config, table, seen, quarantine, metrics, left>>
  BY DEF Job!_run_dryrun
<1>3. /\ runner.code = 0 /\ metrics = None /\ Nothing /\ quarantine = None /\ config.task # "profile" /\ Adds(seen.observed, seen.invalid)
      /\ ConfigInv
  BY <1>1 DEF JobInv, JobType, OnItsWay, Working
<1>4. config.skip <=> Job!RunType = "preview"
  BY <1>3 DEF ConfigInv, Job!RunType
<1>5. Succeeded'
  <2> DEFINE Written(T) ==
        [status |-> "SUCCESS", run_type |-> Job!RunType, total |-> seen.observed.input, valid |-> seen.observed.valid,
         invalid |-> seen.invalid, error |-> seen.observed.error, warning |-> seen.observed.warning, sample |-> Job!SampleSize,
         summary |-> [c \in T |-> seen.observed.per_check[c]], fingerprint |-> Job!_compute_fingerprint,
         stamp |-> Job!_stamp_run_provenance(TRUE)]
  <2>1. PICK T \in Job!_check_metrics_to_error_summary(seen.observed) : results' = Append(results, Written(T))
    BY DEF Job!_run_dryrun, Job!Reported
  <2>2. PICK r : r = Written(T)
    OBVIOUS
  <2>3. Len(results') = 1 /\ results' = <<r>> /\ results'[1] = r
    BY <1>3, <2>1, <2>2, Appending
  <2>4. (\A c \in T : seen.observed.per_check[c] > 0) /\ (seen.invalid > 0 => T # {})
    BY <1>3, SummariesNameFailures
  <2>5. DOMAIN r.summary = T /\ \A c \in T : r.summary[c] > 0
    BY <2>2, <2>4
  <2>6. Success(r)
    BY <1>3, <2>2, <2>4, <2>5 DEF Success
  <2> HIDE DEF Written
  <2>7. Success(r)'
    BY <1>2, <2>6 DEF Success, Adds, Job!RunType
  <2>8. QED
    BY <2>3, <2>7 DEF Succeeded
<1>6. JobType'
  BY <1>1, <1>2 DEF JobInv, JobType, ConfigInv, Working, Ending
<1>7. OnItsWay' /\ AtItsEnd' /\ CleanedUp'
  BY <1>1, <1>2, <1>3, <1>4, <1>5 DEF OnItsWay, AtItsEnd, CleanedUp, Working, Ending
<1>8. AllFound'
  BY <1>1, <1>2, <1>3, CountsStay DEF JobInv, AllFound
<1>9. QED
  BY <1>6, <1>7, <1>8 DEF JobInv

(* The invalid rows are put aside. *)
LEMMA QuarantineKeeps ==
  ASSUME JobAssumption, JobInv, Job!Quarantine
  PROVE  JobInv'
PROOF
<1>1. /\ runner.step = "quarantine" /\ runner'.step = "metrics" /\ runner'.code = runner.code /\ runner'.known = runner.known
      /\ runner' \in [step : Working \cup Ending, known : BOOLEAN, cleanup : BOOLEAN, code : {0, 1}, faults : Nat]
  BY Going DEF JobInv, Job!Quarantine, Working
<1>2. UNCHANGED <<config, table, seen, results, metrics, left>>
  BY DEF Job!Quarantine
<1>3. /\ runner.code = 0 /\ metrics = None /\ Succeeded /\ ~config.skip /\ config.task # "profile" /\ seen.invalid \in Nat
      /\ table.rows \in Seq(SUBSET {"e", "w"})
  BY <1>1 DEF JobInv, JobType, OnItsWay, Working, Succeeded, Success, Adds
<1>4. Succeeded'
  BY <1>1, <1>2, <1>3, RowsKeepTheirMeaning
<1>5. JobType'
  BY <1>1, <1>2 DEF JobInv, JobType, ConfigInv, Working, Ending
<1>6. OnItsWay' /\ AtItsEnd' /\ CleanedUp'
  BY <1>1, <1>2, <1>3, <1>4 DEF OnItsWay, AtItsEnd, CleanedUp, Working, Ending
<1>7. AllFound'
  <2> SUFFICES ASSUME ~table.changed, Job!SampleSize = 0
               PROVE  (IF quarantine' = None THEN 0 ELSE quarantine') =
                        IF config.is_sql /\ seen.invalid > _SQL_QUARANTINE_MAX_ROWS THEN _SQL_QUARANTINE_MAX_ROWS ELSE seen.invalid
    BY <1>1, <1>2, CountsStay DEF AllFound
  <2> DEFINE D == DOMAIN table.rows
             I == Job!Invalid(D)
  <2>1. \A S \in Job!Limited(Job!SampleSize) : S = D /\ IsFiniteSet(D)
    BY <1>3, ScansReadRows
  <2>2. seen.invalid = Cardinality(I)
    BY <1>1, CountedAlike DEF JobInv, AllFound
  <2>3. I \subseteq D
    BY DEF Job!Invalid
  <2>4. CASE config.is_sql
    <3> DEFINE n == IF seen.invalid > _SQL_QUARANTINE_MAX_ROWS THEN _SQL_QUARANTINE_MAX_ROWS ELSE seen.invalid
    <3>1. PICK S \in Job!Limited(Job!SampleSize) : quarantine' = IF n = 0 THEN None ELSE IF Cardinality(S) < n THEN Cardinality(S) ELSE n
      BY <2>4, CountedAlike DEF Job!Quarantine, Job!_write_sql_quarantine_records
    <3>2. S = D /\ IsFiniteSet(D)
      BY <2>1
    <3> HIDE DEF D, I
    <3>3. Cardinality(I) <= Cardinality(D) /\ Cardinality(D) \in Nat
      BY <2>3, <3>2, FS_Subset, FS_CardinalityType
    <3>4. QED
      BY <1>3, <2>2, <2>4, <3>1, <3>2, <3>3 DEF JobAssumption
  <2>5. CASE ~config.is_sql
    <3>1. PICK S \in Job!Limited(Job!SampleSize), T \in Job!Limited(Job!SampleSize) :
            quarantine' = IF Job!Invalid(S) = {} THEN None ELSE Cardinality(Job!Invalid(T))
      BY <2>5, CountedAlike DEF Job!Quarantine, Job!_write_quarantine_records
    <3>2. S = D /\ T = D
      BY <2>1
    <3>3. quarantine' = IF I = {} THEN None ELSE Cardinality(I)
      BY <3>1, <3>2
    <3> HIDE DEF D, I
    <3>4. I = {} => Cardinality(I) = 0
      BY FS_EmptySet
    <3>5. QED
      BY <1>3, <2>2, <2>5, <3>3, <3>4 DEF JobAssumption
  <2>6. QED
    BY <2>4, <2>5
<1>8. QED
  BY <1>5, <1>6, <1>7 DEF JobInv

(* The metrics are written, those of the row. *)
LEMMA MetricsKeep ==
  ASSUME JobAssumption, JobInv, Job!_persist_observed_metrics
  PROVE  JobInv'
PROOF
<1>1. /\ runner.step = "metrics" /\ runner'.step = "finally" /\ runner'.code = runner.code /\ runner'.known = runner.known
      /\ runner' \in [step : Working \cup Ending, known : BOOLEAN, cleanup : BOOLEAN, code : {0, 1}, faults : Nat]
  BY Going DEF JobInv, Job!_persist_observed_metrics, Ending
<1>2. UNCHANGED <<config, table, seen, results, quarantine, left>>
  BY DEF Job!_persist_observed_metrics
<1>3. runner.code = 0 /\ Succeeded /\ ~config.skip /\ config.task # "profile"
  BY <1>1 DEF JobInv, OnItsWay, Working
<1>4. Succeeded'
  BY <1>1, <1>2, <1>3, RowsKeepTheirMeaning
<1>5. metrics' # None /\ metrics'.values = seen.observed
  BY DEF Job!_persist_observed_metrics, Job!Reported, JobAssumption
<1>6. JobType'
  BY <1>1, <1>2 DEF JobInv, JobType, ConfigInv, Working, Ending
<1>7. OnItsWay' /\ AtItsEnd' /\ CleanedUp'
  BY <1>1, <1>2, <1>3, <1>4, <1>5 DEF OnItsWay, AtItsEnd, CleanedUp, Working, Ending
<1>8. AllFound'
  BY <1>1, <1>2, CountsStay DEF JobInv, AllFound
<1>9. QED
  BY <1>6, <1>7, <1>8 DEF JobInv

(* A failure is reported, or its report is lost. *)
LEMMA FailuresKeep ==
  ASSUME JobAssumption, JobInv, Job!_write_error
  PROVE  JobInv'
PROOF
<1>1. PICK lost \in BOOLEAN :
        LET spent == (IF Job!CannotGoOn THEN 0 ELSE 1) + (IF lost THEN 1 ELSE 0)
        IN /\ runner' = [runner EXCEPT !.step = "finally", !.code = 1, !.faults = runner.faults + spent]
           /\ results' = IF lost THEN results
                ELSE Append(results,
                  [status |-> "FAILED", run_type |-> IF config.task = "profile" THEN None ELSE Job!ErrorRunType,
                   fingerprint |-> Job!_compute_fingerprint, stamp |-> Job!_stamp_run_provenance(FALSE)])
  BY DEF Job!_write_error
<1>2. runner.step \in Working /\ UNCHANGED <<config, table, seen, quarantine, metrics, left>>
  BY DEF Job!_write_error, Job!Working, Working
<1>3. PICK spent \in Nat : runner' = [runner EXCEPT !.step = "finally", !.code = 1, !.faults = runner.faults + spent] /\ (lost => spent > 0)
  <2> DEFINE n == (IF Job!CannotGoOn THEN 0 ELSE 1) + (IF lost THEN 1 ELSE 0)
  <2>1. n \in Nat /\ (lost => n > 0)
    OBVIOUS
  <2>2. QED
    BY <1>1, <2>1
<1>4. /\ runner'.step = "finally" /\ runner'.code = 1 /\ runner'.known = runner.known /\ runner'.faults = runner.faults + spent
      /\ runner.faults \in Nat /\ runner' \in [step : Working \cup Ending, known : BOOLEAN, cleanup : BOOLEAN, code : {0, 1}, faults : Nat]
  <2>1. runner \in [step : Working \cup Ending, known : BOOLEAN, cleanup : BOOLEAN, code : {0, 1}, faults : Nat] /\ "finally" \in Ending
    BY DEF JobInv, JobType, Ending
  <2>2. runner.faults \in Nat /\ runner.faults + spent \in Nat
    BY <2>1
  <2> HIDE DEF Working, Ending
  <2>3. PICK n \in Nat : n = runner.faults + spent
    BY <2>2
  <2>4. runner' = [runner EXCEPT !.step = "finally", !.code = 1, !.faults = n]
    BY <1>3, <2>3
  <2>5. QED
    BY <2>1, <2>2, <2>3, <2>4
<1>5. metrics = None /\ (Nothing \/ (Succeeded /\ config.task # "profile" /\ ~config.skip))
  BY <1>2 DEF JobInv, OnItsWay, Working
<1>6. CASE lost
  <2>1. results' = results
    BY <1>1, <1>6
  <2>2. (Nothing => Nothing') /\ (Succeeded => Succeeded')
    BY <1>2, <1>4, <2>1, RowsKeepTheirMeaning
  <2>3. AtItsEnd'
    BY <1>2, <1>3, <1>4, <1>5, <1>6, <2>2 DEF AtItsEnd, Ending
  <2>4. JobType'
    BY <1>2, <1>4 DEF JobInv, JobType, ConfigInv
  <2>5. OnItsWay'
    BY <1>2, <1>4, <1>5 DEF JobInv, OnItsWay, Working
  <2>6. AllFound' /\ CleanedUp'
    BY <1>2, <1>4, <1>5 DEF AllFound, CleanedUp
  <2>7. QED
    BY <2>3, <2>4, <2>5, <2>6 DEF JobInv
<1>7. CASE ~lost
  <2>1. PICK f : f = [status |-> "FAILED", run_type |-> IF config.task = "profile" THEN None ELSE Job!ErrorRunType,
                      fingerprint |-> Job!_compute_fingerprint, stamp |-> Job!_stamp_run_provenance(FALSE)]
    OBVIOUS
  <2>2. results' = Append(results, f)
    BY <1>1, <1>7, <2>1
  <2>3. Failure(f)
    BY <2>1 DEF Failure, Job!ErrorRunType
  <2>4. Failure(f)' /\ \A r : Success(r) => Success(r)'
    BY <1>2, <1>4, <2>3 DEF Failure, Success, Adds, Job!RunType
  <2>5. Nothing => FailedOnly'
    BY <2>2, <2>4, Appending DEF FailedOnly
  <2>6. Succeeded => FailedLater'
    BY <2>2, <2>4, Appending DEF Succeeded, FailedLater
  <2>7. AtItsEnd'
    BY <1>2, <1>4, <1>5, <2>5, <2>6 DEF AtItsEnd, Ending
  <2>8. JobType'
    BY <1>2, <1>4 DEF JobInv, JobType, ConfigInv
  <2>9. OnItsWay'
    BY <1>2, <1>4, <1>5 DEF JobInv, OnItsWay, Working
  <2>10. AllFound' /\ CleanedUp'
    BY <1>2, <1>4, <1>5 DEF AllFound, CleanedUp
  <2>11. QED
    BY <2>7, <2>8, <2>9, <2>10 DEF JobInv
<1>8. QED
  BY <1>6, <1>7

(* The configuration is removed, or its removal fails. *)
LEMMA CleanupKeeps ==
  ASSUME JobAssumption, JobInv, Job!_cleanup_run_config
  PROVE  JobInv'
PROOF
<1>1. PICK fails \in BOOLEAN :
        /\ runner' = [runner EXCEPT !.step = "drop", !.faults = runner.faults + (IF fails THEN 1 ELSE 0)]
        /\ left' = IF runner.cleanup /\ ~fails THEN left \ {"config"} ELSE left
  BY DEF Job!_cleanup_run_config
<1>2. runner.step = "finally" /\ UNCHANGED <<config, table, seen, results, quarantine, metrics>>
  BY DEF Job!_cleanup_run_config
<1>3. /\ runner'.step = "drop" /\ runner'.code = runner.code /\ runner'.known = runner.known /\ runner'.cleanup = runner.cleanup
      /\ runner.faults \in Nat /\ runner'.faults \in Nat /\ runner'.faults >= runner.faults /\ (fails => runner'.faults > 0)
      /\ runner' \in [step : Working \cup Ending, known : BOOLEAN, cleanup : BOOLEAN, code : {0, 1}, faults : Nat]
  <2>1. runner \in [step : Working \cup Ending, known : BOOLEAN, cleanup : BOOLEAN, code : {0, 1}, faults : Nat] /\ "drop" \in Ending
    BY DEF JobInv, JobType, Ending
  <2>2. PICK n \in Nat : n = runner.faults + (IF fails THEN 1 ELSE 0)
    BY <2>1
  <2> HIDE DEF Working, Ending
  <2>3. runner' = [runner EXCEPT !.step = "drop", !.faults = n]
    BY <1>1, <2>2
  <2>4. n >= runner.faults /\ (fails => n > 0)
    BY <2>1, <2>2
  <2>5. QED
    BY <2>1, <2>3, <2>4
<1>4. (Nothing => Nothing') /\ (Succeeded => Succeeded') /\ (FailedOnly => FailedOnly') /\ (FailedLater => FailedLater')
  BY <1>2, <1>3, RowsKeepTheirMeaning
<1>5. AtItsEnd'
  BY <1>2, <1>3, <1>4 DEF JobInv, AtItsEnd, Ending
<1>6. JobType' /\ OnItsWay'
  BY <1>2, <1>3 DEF JobInv, JobType, ConfigInv, OnItsWay, Working
<1>7. AllFound'
  BY <1>2, <1>3, CountsStay DEF JobInv, AllFound
<1>8. CleanedUp'
  BY <1>1, <1>3 DEF CleanedUp
<1>9. QED
  BY <1>5, <1>6, <1>7, <1>8 DEF JobInv

(* The view is dropped, or may not be. *)
LEMMA DropKeeps ==
  ASSUME JobAssumption, JobInv, Job!DropView
  PROVE  JobInv'
PROOF
<1>1. /\ runner.step = "drop" /\ runner'.step = "ended" /\ runner'.code = runner.code /\ runner'.known = runner.known
      /\ runner'.faults = runner.faults /\ runner'.cleanup = runner.cleanup
      /\ runner' \in [step : Working \cup Ending, known : BOOLEAN, cleanup : BOOLEAN, code : {0, 1}, faults : Nat]
  BY Going DEF JobInv, Job!DropView, Ending
<1>2. UNCHANGED <<config, table, seen, results, quarantine, metrics>> /\ ("config" \in left' => "config" \in left)
  BY DEF Job!DropView
<1>3. (Nothing => Nothing') /\ (Succeeded => Succeeded') /\ (FailedOnly => FailedOnly') /\ (FailedLater => FailedLater')
  BY <1>1, <1>2, RowsKeepTheirMeaning
<1>4. AtItsEnd'
  BY <1>1, <1>2, <1>3 DEF JobInv, AtItsEnd, Ending
<1>5. JobType' /\ OnItsWay'
  BY <1>1, <1>2 DEF JobInv, JobType, ConfigInv, OnItsWay, Working
<1>6. AllFound' /\ CleanedUp'
  BY <1>1, <1>2, CountsStay DEF JobInv, AllFound, CleanedUp
<1>7. QED
  BY <1>4, <1>5, <1>6 DEF JobInv

(* Meanwhile the table changes, or the view goes. *)
LEMMA OthersKeep ==
  ASSUME JobAssumption, JobInv, Job!TableChanges \/ Job!ViewIsDropped \/ UNCHANGED Job!runnerVars
  PROVE  JobInv'
PROOF
<1>1. UNCHANGED <<config, runner, seen, results, quarantine, metrics>> /\ ("config" \in left' => "config" \in left)
  BY DEF Job!TableChanges, Job!ViewIsDropped, Job!runnerVars
<1>2. table' = table \/ (table'.changed = TRUE /\ table' \in [rows : Seq(SUBSET {"e", "w"}), changed : BOOLEAN])
  <2>1. CASE Job!TableChanges
    <3>1. PICK next \in {<<>>, Append(table.rows, {"e"})} : table' = [rows |-> next, changed |-> TRUE]
      BY <2>1 DEF Job!TableChanges
    <3>2. table.rows \in Seq(SUBSET {"e", "w"}) /\ {"e"} \in SUBSET {"e", "w"}
      BY DEF JobInv, JobType
    <3>3. Append(table.rows, {"e"}) \in Seq(SUBSET {"e", "w"}) /\ <<>> \in Seq(SUBSET {"e", "w"})
      BY <3>2, AppendProperties, EmptySeq
    <3>4. next \in Seq(SUBSET {"e", "w"})
      BY <3>1, <3>3
    <3>5. QED
      BY <3>1, <3>4
  <2>2. QED
    BY <2>1 DEF Job!ViewIsDropped, Job!runnerVars
<1>3. (Nothing => Nothing') /\ (Succeeded => Succeeded') /\ (FailedOnly => FailedOnly') /\ (FailedLater => FailedLater')
  BY <1>1, RowsKeepTheirMeaning
<1>4. Adds(seen.observed, seen.invalid) => Adds(seen.observed, seen.invalid)'
  BY <1>1 DEF Adds
<1>5. AtItsEnd'
  BY <1>1, <1>3 DEF JobInv, AtItsEnd
<1>6. JobType'
  BY <1>1, <1>2 DEF JobInv, JobType, ConfigInv
<1>7. OnItsWay'
  BY <1>1, <1>3, <1>4 DEF JobInv, OnItsWay
<1>8. AllFound' /\ CleanedUp'
  BY <1>1, <1>2, CountsStay DEF JobInv, AllFound, CleanedUp
<1>9. QED
  BY <1>5, <1>6, <1>7, <1>8 DEF JobInv

(* What the invariant says of the end of a run. *)
LEMMA JobInvTellsTheStory ==
  ASSUME JobAssumption, JobInv
  PROVE  Job!RunsTellOneStory
PROOF
<1>1. \/ Nothing \/ Succeeded \/ FailedOnly \/ FailedLater
  BY DEF JobInv, JobType, OnItsWay, AtItsEnd, Working, Ending
<1>2. \A i \in DOMAIN results : (results[i].status = "SUCCESS" /\ Success(results[i])) \/ (results[i].status = "FAILED" /\ Failure(results[i]))
  <2>1. CASE Nothing
    BY <2>1 DEF Nothing
  <2>2. CASE Succeeded
    BY <2>2 DEF Succeeded, Success
  <2>3. CASE FailedOnly
    BY <2>3 DEF FailedOnly, Failure
  <2>4. CASE FailedLater
    <3>1. \A i \in DOMAIN results : i = 1 \/ i = 2
      BY <2>4 DEF FailedLater
    <3>2. QED
      BY <2>4, <3>1 DEF FailedLater, Success, Failure
  <2>5. QED
    BY <1>1, <2>1, <2>2, <2>3, <2>4
<1>3. Job!CountsAddUp
  <2> SUFFICES ASSUME NEW i \in Job!Rows("SUCCESS"), config.task # "profile"
               PROVE  LET r == results[i]
                      IN /\ r.total = r.valid + r.invalid
                         /\ r.invalid <= r.error + r.warning /\ r.error <= r.invalid /\ r.warning <= r.invalid
                         /\ \A c \in DOMAIN r.summary : r.summary[c] > 0
                         /\ r.invalid > 0 => DOMAIN r.summary # {}
                         /\ metrics # None => metrics.values.input = r.total /\ metrics.values.error = r.error /\ metrics.values.valid = r.valid
    BY DEF Job!CountsAddUp
  <2>1. Success(results[i])
    BY <1>2 DEF Job!Rows
  <2>2. metrics # None => metrics.values = seen.observed
    BY DEF JobInv, AtItsEnd
  <2>3. QED
    BY <2>1, <2>2 DEF Success, Adds
<1>4. /\ Nothing => Job!Rows("SUCCESS") = {} /\ Job!Rows("FAILED") = {}
      /\ Succeeded => Job!Rows("SUCCESS") # {} /\ Job!Rows("FAILED") = {}
      /\ FailedOnly => Job!Rows("SUCCESS") = {} /\ Job!Rows("FAILED") # {}
      /\ FailedLater => Job!Rows("FAILED") # {}
  BY DEF Job!Rows, Nothing, Succeeded, FailedOnly, FailedLater, Success, Failure
<1>5. Job!ExitTellsTheRows
  <2> SUFFICES ASSUME runner.step = "ended"
               PROVE  /\ runner.code = 0 <=> Job!Rows("SUCCESS") # {} /\ Job!Rows("FAILED") = {} /\ (metrics # None \/ config.task = "profile" \/ config.skip)
                      /\ runner.code = 1 /\ runner.faults = 0 => Job!Rows("FAILED") # {}
                      /\ runner.code = 0 /\ ~table.changed /\ Job!SampleSize = 0 /\ metrics # None =>
                           (IF quarantine = None THEN 0 ELSE quarantine) =
                             IF config.is_sql /\ seen.invalid > _SQL_QUARANTINE_MAX_ROWS THEN _SQL_QUARANTINE_MAX_ROWS ELSE seen.invalid
    BY DEF Job!ExitTellsTheRows, Job!Ended
  <2>1. runner.code \in {0, 1} /\ runner.step \in Ending
    BY DEF JobInv, JobType, Ending
  <2>2. CASE runner.code = 0
    BY <1>4, <2>1, <2>2 DEF JobInv, AtItsEnd, AllFound
  <2>3. CASE runner.code = 1
    BY <1>4, <2>1, <2>3 DEF JobInv, AtItsEnd
  <2>4. QED
    BY <2>1, <2>2, <2>3
<1>6. Job!KindIsKept
  BY <1>2 DEF Job!KindIsKept, JobInv, OnItsWay, Success, Failure
<1>7. Job!ConfigIsRemoved
  BY DEF Job!ConfigIsRemoved, Job!Ended, JobInv, CleanedUp
<1>8. QED
  BY <1>3, <1>5, <1>6, <1>7 DEF Job!RunsTellOneStory

(* The rows of a run add up and agree with its metrics and its quarantine; its
   exit is what its rows say; a preview leaves nothing; a configuration that was
   read is removed: main of the task runner, whatever the data, the moment and
   the number of the failures, and however the table changes in between. *)
THEOREM RunsTellTheirStory ==
  ASSUME JobAssumption
  PROVE  Job!Spec => []Job!RunsTellOneStory
PROOF
<1>1. Job!Init => JobInv
  BY JobBegins
<1>2. JobInv /\ [Job!Next]_(Job!runnerVars) => JobInv'
  <2> SUFFICES ASSUME JobInv, [Job!Next]_(Job!runnerVars)
               PROVE  JobInv'
    OBVIOUS
  <2>1. QED
    BY ResolveKeeps, CountKeeps, ProfileKeeps, ShowKeeps, RowKeeps, QuarantineKeeps, MetricsKeep, FailuresKeep, CleanupKeeps, DropKeeps,
       OthersKeep DEF Job!Next
<1>3. JobInv => Job!RunsTellOneStory
  BY JobInvTellsTheStory
<1>4. QED
  BY <1>1, <1>2, <1>3, PTL DEF Job!Spec

-----------------------------------------------------------------------------

CONSTANTS Names, MaxEvents, MaxSwitches
VARIABLES deployed, stored, world, process, report, run, vouched, budget

Begin == INSTANCE Setup WITH MaxChanges <- MaxSwitches

-----------------------------------------------------------------------------
(* Setup: the inductive invariant *)

\* The places of a walk, from where on something is settled.
Active == {"access", "ai", "ai_on", "ai_off", "app_sharing"}
Completed == {"activation"} \cup Active
Migrated == {"outputs", "completion"} \cup Completed
HasJob == {"runner_access", "wheels", "plan", "migrate"} \cup Migrated
Locked == {"warehouse", "task_runner"} \cup HasJob
Bound == {"unity_catalog", "storage", "create", "recheck", "volume", "lock"} \cup Locked
Connected == {"configuration"} \cup Bound
Walks == {"identity", "postgres"} \cup Connected
Saves == {"save_prefix", "save_group"}

Jobs == {1, 2}
ConfigOrNone == Begin!Config \cup {None}
JobOrNone == Jobs \cup {None}
Processes == [up : BOOLEAN, bound : ConfigOrNone, context : [config : ConfigOrNone, opened : BOOLEAN, active : BOOLEAN], job : JobOrNone]
Progress == [done : SUBSET (Begin!Versions \X {1}), recorded : SUBSET Begin!Versions]

\* What is shown as overridden was confirmed, and what is trusted verified.
ShownSet == [offers : SUBSET Begin!Steps, grants : SUBSET Begin!Steps, overridden : SUBSET vouched.confirmed, trusted : SUBSET vouched.verified]
RunRecord == [pc : Walks, attended : BOOLEAN, progress : BOOLEAN, shown : ShownSet, todo : Seq(Begin!Versions \X {0, 1})]

SetupTypes ==
  /\ deployed \in BOOLEAN
  /\ DOMAIN stored = {"choices", "locked", "overrides", "memo", "ai", "warehouse", "completed"}
  /\ stored.choices \in [Begin!Field -> Names \cup {None}] /\ stored.locked \in BOOLEAN /\ stored.completed \in BOOLEAN
  /\ DOMAIN stored.overrides = Begin!OVERRIDABLE_STEPS /\ DOMAIN stored.memo = Begin!Scopes /\ stored.warehouse \in Names
  /\ DOMAIN world = {"schemas", "delta", "postgres", "jobs", "runAs"}
  /\ world.schemas \in [Begin!Location -> {"absent", "ours", "foreign", "managed"}]
  /\ world.delta \in [Begin!Location -> Progress]
  /\ world.jobs \in SUBSET Jobs /\ world.runAs \in [Jobs -> Names \cup {Begin!App}]
  /\ process \in Processes
  /\ run.pc \in {"idle"} \cup Saves \cup Walks
  /\ run.pc \in Walks => run \in RunRecord
  /\ run.pc \in Saves => DOMAIN run = {"pc", "name"} /\ run.name \in Names

\* What is stored was confirmed or verified, and so was what is published.
VouchInv ==
  /\ DOMAIN vouched = {"confirmed", "verified"}
  /\ \A s \in Begin!OVERRIDABLE_STEPS : stored.overrides[s] = None \/ stored.overrides[s] \in vouched.confirmed
  /\ \A s \in Begin!Scopes : stored.memo[s] = None \/ stored.memo[s] \in vouched.verified
  /\ Begin!VouchedForThis

\* What a walk has settled by a step.
Settled(pc) ==
  /\ pc \in Connected => world.postgres = 2
  /\ pc \in Bound => process.bound # None /\ process.bound = Begin!Resolved
  /\ pc \in {"volume", "lock"} => world.schemas[Begin!Place(process.bound)] \in {"ours", "managed"}
  /\ pc \in {"lock"} \cup Saves => ~stored.locked
  /\ pc \in Locked => stored.locked
  /\ pc \in HasJob => process.job # None
  /\ pc \in Migrated => world.delta[Begin!Place(process.bound)].recorded = Begin!Versions
  /\ pc \in Completed => stored.completed
  /\ pc \in Active => process.context.active
WalkInv ==
  /\ Settled(run.pc)
  /\ process.bound # None => process.context.config = process.bound
  /\ world.postgres \in 0 .. 2

\* READY holds what it promises.
Earned ==
  report.state = "ready" =>
    /\ stored.locked /\ process.bound = Begin!Resolved /\ process.context.config = Begin!Resolved /\ process.context.active
    /\ process.job # None /\ stored.completed /\ world.postgres = 2
    /\ world.delta[Begin!Place(Begin!Resolved)].recorded = Begin!Versions

\* No version is recorded before its statements, and a walk that migrates has
\* left to do what is not recorded.
Ahead(todo, done, recorded) ==
  \/ todo = <<>> /\ recorded = {1, 2}
  \/ todo = << <<2, 0>> >> /\ 1 \in recorded /\ <<2, 1>> \in done
  \/ todo = << <<2, 1>>, <<2, 0>> >> /\ 1 \in recorded
  \/ todo = << <<1, 0>> >> /\ 2 \in recorded /\ <<1, 1>> \in done
  \/ todo = << <<1, 1>>, <<1, 0>> >> /\ 2 \in recorded
  \/ todo = << <<1, 0>>, <<2, 1>>, <<2, 0>> >> /\ <<1, 1>> \in done
  \/ todo = << <<1, 1>>, <<1, 0>>, <<2, 1>>, <<2, 0>> >>
MigrateInv ==
  /\ \A l \in Begin!Location : \A v \in world.delta[l].recorded : <<v, 1>> \in world.delta[l].done
  /\ run.pc = "migrate" =>
       LET l == Begin!Place(process.bound) IN Ahead(run.todo, world.delta[l].done, world.delta[l].recorded)

OneJob == \A i, j \in world.jobs : i = j

SetupInv == SetupTypes /\ VouchInv /\ WalkInv /\ Begin!LockNamesTheStorage /\ Earned /\ MigrateInv /\ OneJob

-----------------------------------------------------------------------------
(* Setup: helpers *)

(* What is resolved is a whole configuration, and its place a location. *)
LEMMA ResolvedConfigs ==
  ASSUME Begin!SetupAssumption, SetupTypes
  PROVE  /\ Begin!Resolved \in Begin!Config \cup {None}
         /\ Begin!Resolved # None => Begin!Resolved \in Begin!Config /\ Begin!Place(Begin!Resolved) \in Begin!Location
         /\ process.bound # None => process.bound \in Begin!Config /\ Begin!Place(process.bound) \in Begin!Location
         /\ None \notin Begin!Config
PROOF
<1>1. Begin!Bundle \in Begin!Config
  BY DEF Begin!SetupAssumption, Begin!Bundle, Begin!Uniform, Begin!Config
<1>2. Begin!Complete => stored.choices \in Begin!Config
  BY DEF SetupTypes, Begin!Complete, Begin!Stored, Begin!Config
<1>3. \A c \in Begin!Config : Begin!Place(c) \in Begin!Location
  BY DEF Begin!Config, Begin!Place, Begin!Location, Begin!Field
<1>4. None \notin Begin!Config
  BY DEF Begin!SetupAssumption
<1>5. QED
  BY <1>1, <1>2, <1>3, <1>4 DEF SetupTypes, Processes, ConfigOrNone, Begin!Resolved, Begin!Stored

LEMMA ResolvedIsKept ==
  ASSUME deployed' = deployed, stored'.choices = stored.choices
  PROVE  Begin!Resolved' = Begin!Resolved
  BY DEF Begin!Resolved, Begin!Complete, Begin!Stored

\* How a step of a walk ends: it blocks, and the walk is over, or goes on.
Ends == /\ run' = Begin!Idle
        /\ DOMAIN report' = {"state", "shown"} /\ report'.state = "setup_required" /\ report'.shown \in ShownSet
GoesOn(next) == /\ run' \in RunRecord /\ run'.pc = next /\ run'.todo = run.todo
                /\ report' = report \/ (report'.state = "initializing" /\ report'.shown \in ShownSet)

LEMMA StepsAreRecorded ==
  ASSUME SetupTypes, run.pc \in Walks, NEW step \in Begin!Steps, NEW r, NEW next \in Walks,
         r.state = "overridden" => Begin!Subject(step, process.bound) \in vouched.confirmed,
         Begin!_record(step, r, next)
  PROVE  IF r.state \in Begin!Blocking THEN Ends ELSE GoesOn(next)
PROOF
<1>1. run \in RunRecord /\ run.shown \in ShownSet
  BY DEF SetupTypes, RunRecord
<1>2. Begin!Shown(step, r) \in ShownSet
  BY <1>1 DEF Begin!Shown, ShownSet
<1>3. CASE r.state \in Begin!Blocking
  BY <1>2, <1>3 DEF Begin!_record, Ends
<1>4. CASE r.state \notin Begin!Blocking
  <2>1. run' = [run EXCEPT !.pc = next, !.shown = Begin!Shown(step, r)]
    BY <1>4 DEF Begin!_record
  <2>2. run' \in RunRecord /\ run'.pc = next /\ run'.todo = run.todo
    BY <1>1, <1>2, <2>1 DEF RunRecord
  <2>3. report' = report \/ (report'.state = "initializing" /\ report'.shown \in ShownSet)
    BY <1>2, <1>4 DEF Begin!_record
  <2>4. QED
    BY <1>4, <2>2, <2>3 DEF GoesOn
<1>5. QED
  BY <1>3, <1>4

(* An override that settles a step was confirmed for what the step is about. *)
LEMMA OverridesWereConfirmed ==
  ASSUME Begin!SetupAssumption, SetupTypes, VouchInv, process.bound \in Begin!Config,
         NEW step \in Begin!OVERRIDABLE_STEPS, NEW r, r.state # "overridden"
  PROVE  Begin!_apply_override(step, r).state = "overridden" => Begin!Subject(step, process.bound) \in vouched.confirmed
PROOF
<1>1. Begin!_apply_override(step, r).state = "overridden" => stored.overrides[step] = Begin!override_fingerprint(step, process.bound)
  BY DEF Begin!_apply_override, Begin!_passed
<1>2. Begin!override_fingerprint(step, process.bound) = Begin!Subject(step, process.bound)
  BY DEF Begin!override_fingerprint, Begin!Subject
<1>3. Begin!Subject(step, process.bound) \in Begin!OVERRIDABLE_STEPS \X Begin!Config \X (Names \cup {None})
  BY DEF Begin!Subject, SetupTypes
<1>4. Begin!Subject(step, process.bound) # None
  BY <1>3 DEF Begin!SetupAssumption
<1>5. QED
  BY <1>1, <1>2, <1>4 DEF VouchInv

(* A step to a place of the walk, with nothing to show. *)
LEMMA StepsGoOn ==
  ASSUME SetupTypes, run.pc \in Walks, NEW next \in Walks, run' = [run EXCEPT !.pc = next], UNCHANGED report
  PROVE  GoesOn(next)
PROOF
<1>1. run \in RunRecord
  BY DEF SetupTypes
<1>2. QED
  BY <1>1 DEF GoesOn, RunRecord

\* What was confirmed or verified stays so.
Vouching == DOMAIN vouched' = {"confirmed", "verified"} /\ vouched.confirmed \subseteq vouched'.confirmed /\ vouched.verified \subseteq vouched'.verified

LEMMA ShownIsVouchedFor ==
  ASSUME SetupTypes, VouchInv, Vouching, NEW next \in Walks, Ends \/ GoesOn(next)
  PROVE  /\ run'.pc \in {"idle"} \cup Walks /\ run'.pc \in {"idle", next} /\ (run'.pc \in Walks => (run \in RunRecord)')
         /\ Begin!VouchedForThis'
         /\ report'.state = "ready" => report.state = "ready"
PROOF
<1>1. ShownSet \subseteq ShownSet'
  BY DEF Vouching, ShownSet
<1>2. RunRecord \subseteq RunRecord'
  BY <1>1 DEF RunRecord
<1>3. report' = report \/ report'.shown \in ShownSet
  BY DEF Ends, GoesOn
<1>4. Begin!VouchedForThis'
  BY <1>3 DEF Vouching, VouchInv, Begin!VouchedForThis, ShownSet
<1>5. QED
  BY <1>2, <1>4 DEF Ends, GoesOn, Begin!Idle, Walks, Connected, Bound, Locked, HasJob, Migrated, Completed, Active

(* A step of a walk that settles nothing but what it shows. *)
LEMMA QuietSteps ==
  ASSUME Begin!SetupAssumption, SetupInv, run.pc \in Walks,
         UNCHANGED <<deployed, world, process>>, DOMAIN stored' = DOMAIN stored,
         stored'.choices = stored.choices, stored'.locked = stored.locked, stored'.completed = stored.completed,
         stored'.warehouse = stored.warehouse,
         DOMAIN stored'.overrides = Begin!OVERRIDABLE_STEPS, DOMAIN stored'.memo = Begin!Scopes,
         \A s \in Begin!OVERRIDABLE_STEPS : stored'.overrides[s] = None \/ stored'.overrides[s] \in vouched'.confirmed,
         \A s \in Begin!Scopes : stored'.memo[s] = None \/ stored'.memo[s] \in vouched'.verified,
         Vouching, NEW next \in Walks \ {"migrate"}, Ends \/ GoesOn(next), Settled(run'.pc)
  PROVE  SetupInv'
PROOF
<1>1. /\ run'.pc \in {"idle"} \cup Walks /\ run'.pc # "migrate" /\ (run'.pc \in Walks => (run \in RunRecord)')
      /\ Begin!VouchedForThis'
      /\ report'.state = "ready" => report.state = "ready"
  BY ShownIsVouchedFor DEF SetupInv
<1>2. Begin!Resolved' = Begin!Resolved
  BY ResolvedIsKept
<1>3. SetupTypes'
  BY <1>1 DEF SetupInv, SetupTypes, Saves, Walks, Connected, Bound, Locked, HasJob, Migrated, Completed, Active
<1>4. VouchInv'
  BY <1>1 DEF VouchInv, Vouching
<1>5. WalkInv'
  BY <1>2 DEF SetupInv, WalkInv, Settled
<1>6. Begin!LockNamesTheStorage'
  BY <1>2 DEF SetupInv, Begin!LockNamesTheStorage
<1>7. Earned'
  BY <1>1, <1>2 DEF SetupInv, Earned
<1>8. MigrateInv' /\ OneJob'
  BY <1>1 DEF SetupInv, MigrateInv, OneJob
<1>9. QED
  BY <1>3, <1>4, <1>5, <1>6, <1>7, <1>8 DEF SetupInv

LEMMA NothingIsSettled == Settled("idle")
  BY DEF Settled, Saves, Connected, Bound, Locked, HasJob, Migrated, Completed, Active

States == {"passed", "action_required", "failed", "warning"}

(* What _apply_override clears was there, or goes. *)
LEMMA ClearedOverrides ==
  ASSUME SetupTypes, VouchInv, NEW step \in Begin!OVERRIDABLE_STEPS, NEW r
  PROVE  /\ DOMAIN Begin!Cleared(step, r) = Begin!OVERRIDABLE_STEPS
         /\ \A s \in Begin!OVERRIDABLE_STEPS : Begin!Cleared(step, r)[s] = None \/ Begin!Cleared(step, r)[s] \in vouched.confirmed
PROOF
<1>1. \A s \in Begin!OVERRIDABLE_STEPS : stored.overrides[s] = None \/ stored.overrides[s] \in vouched.confirmed
  BY DEF VouchInv
<1>2. DOMAIN stored.overrides = Begin!OVERRIDABLE_STEPS
  BY DEF SetupTypes
<1>3. QED
  BY <1>1, <1>2 DEF Begin!Cleared

(* Steps an override may settle (_advance_bound). *)
LEMMA BoundStepsKeep ==
  ASSUME Begin!SetupAssumption, SetupInv, run.pc \in Bound, NEW step \in Begin!OVERRIDABLE_STEPS, NEW r, r.state \in States,
         NEW next \in Walks \ {"migrate"}, Settled(next), Begin!AdvanceBound(step, r, next),
         UNCHANGED <<deployed, world, process, vouched>>
  PROVE  SetupInv'
PROOF
<1>1. SetupTypes /\ VouchInv /\ run.pc \in Walks /\ step \in Begin!Steps /\ next \in Walks
  BY DEF SetupInv, Walks, Connected, Begin!OVERRIDABLE_STEPS, Begin!Steps
<1>2. process.bound \in Begin!Config
  BY ResolvedConfigs DEF SetupInv, WalkInv, Settled
<1>3. Begin!_apply_override(step, r).state = "overridden" => Begin!Subject(step, process.bound) \in vouched.confirmed
  BY <1>1, <1>2, OverridesWereConfirmed DEF States
<1>4. Ends \/ GoesOn(next)
  BY <1>1, <1>3, StepsAreRecorded DEF Begin!AdvanceBound
<1>5. stored' = [stored EXCEPT !.overrides = Begin!Cleared(step, r)]
  BY DEF Begin!AdvanceBound
<1>6. /\ DOMAIN stored' = DOMAIN stored /\ stored'.choices = stored.choices /\ stored'.locked = stored.locked
      /\ stored'.completed = stored.completed /\ stored'.warehouse = stored.warehouse /\ stored'.memo = stored.memo
      /\ stored'.overrides = Begin!Cleared(step, r)
  BY <1>1, <1>5 DEF SetupTypes
<1>7. Settled(run'.pc)
  BY <1>4, NothingIsSettled DEF Ends, GoesOn, Begin!Idle
<1>8. Vouching
  BY <1>1 DEF Vouching, VouchInv
<1>9. /\ DOMAIN stored'.overrides = Begin!OVERRIDABLE_STEPS /\ DOMAIN stored'.memo = Begin!Scopes
      /\ \A s \in Begin!OVERRIDABLE_STEPS : stored'.overrides[s] = None \/ stored'.overrides[s] \in vouched'.confirmed
      /\ \A s \in Begin!Scopes : stored'.memo[s] = None \/ stored'.memo[s] \in vouched'.verified
  BY <1>1, <1>6, ClearedOverrides DEF SetupTypes, VouchInv
<1>10. QED
  BY <1>1, <1>4, <1>6, <1>7, <1>8, <1>9, QuietSteps

(* Steps that record a result and store nothing. *)
LEMMA RecordedStepsKeep ==
  ASSUME Begin!SetupAssumption, SetupInv, run.pc \in Walks, NEW step \in Begin!Steps, NEW r, r.state \in States,
         NEW next \in Walks \ {"migrate"}, r.state \notin Begin!Blocking => Settled(next), Begin!_record(step, r, next),
         UNCHANGED <<deployed, stored, world, process, vouched>>
  PROVE  SetupInv'
PROOF
<1>1. SetupTypes /\ VouchInv /\ next \in Walks
  BY DEF SetupInv
<1>2. IF r.state \in Begin!Blocking THEN Ends ELSE GoesOn(next)
  BY <1>1, StepsAreRecorded DEF States
<1>3. Settled(run'.pc) /\ (Ends \/ GoesOn(next))
  BY <1>2, NothingIsSettled DEF Ends, GoesOn, Begin!Idle
<1>4. /\ Vouching /\ DOMAIN stored'.overrides = Begin!OVERRIDABLE_STEPS /\ DOMAIN stored'.memo = Begin!Scopes
      /\ \A s \in Begin!OVERRIDABLE_STEPS : stored'.overrides[s] = None \/ stored'.overrides[s] \in vouched'.confirmed
      /\ \A s \in Begin!Scopes : stored'.memo[s] = None \/ stored'.memo[s] \in vouched'.verified
  BY <1>1 DEF Vouching, VouchInv, SetupTypes
<1>5. QED
  BY <1>3, <1>4, QuietSteps

(* Steps that go on without a word. *)
LEMMA SilentStepsKeep ==
  ASSUME Begin!SetupAssumption, SetupInv, run.pc \in Walks, NEW next \in Walks \ {"migrate"}, Settled(next),
         run' = [run EXCEPT !.pc = next], UNCHANGED <<deployed, stored, world, process, report, vouched>>
  PROVE  SetupInv'
PROOF
<1>1. SetupTypes /\ VouchInv /\ next \in Walks
  BY DEF SetupInv
<1>2. GoesOn(next)
  BY <1>1, StepsGoOn
<1>3. Settled(run'.pc)
  BY <1>2 DEF GoesOn
<1>4. /\ Vouching /\ DOMAIN stored'.overrides = Begin!OVERRIDABLE_STEPS /\ DOMAIN stored'.memo = Begin!Scopes
      /\ \A s \in Begin!OVERRIDABLE_STEPS : stored'.overrides[s] = None \/ stored'.overrides[s] \in vouched'.confirmed
      /\ \A s \in Begin!Scopes : stored'.memo[s] = None \/ stored'.memo[s] \in vouched'.verified
  BY <1>1 DEF Vouching, VouchInv, SetupTypes
<1>5. QED
  BY <1>2, <1>3, <1>4, QuietSteps

-----------------------------------------------------------------------------
(* Setup: the steps of a walk *)

(* The checks before a configuration is bound. *)
LEMMA FirstChecksKeep ==
  ASSUME Begin!SetupAssumption, SetupInv,
         \/ \E step \in {"identity", "lakebase"}, r \in {Begin!_passed, Begin!_action_required} : Begin!Bootstrap(step, r)
         \/ Begin!ResolveFails
  PROVE  SetupInv'
PROOF
<1>1. ASSUME NEW step \in {"identity", "lakebase"}, NEW r \in {Begin!_passed, Begin!_action_required}, Begin!Bootstrap(step, r)
      PROVE  SetupInv'
  <2>1. run.pc \in Walks /\ "postgres" \in Walks \ {"migrate"} /\ Settled("postgres") /\ step \in Begin!Steps /\ r.state \in States
    BY <1>1 DEF Begin!Bootstrap, Settled, States, Begin!Steps, Begin!_passed, Begin!_action_required, Saves, Walks, Connected, Bound, Locked, HasJob, Migrated, Completed, Active
  <2>2. Begin!_record(step, r, "postgres") /\ UNCHANGED <<deployed, stored, world, process, vouched>>
    BY <1>1 DEF Begin!Bootstrap, Begin!StayPut
  <2>3. QED
    BY <2>1, <2>2, RecordedStepsKeep
<1>2. CASE Begin!ResolveFails
  <2>1. run.pc \in Walks /\ "unity_catalog" \in Walks \ {"migrate"} /\ "configuration" \in Begin!Steps
        /\ Begin!_failed.state \in States /\ Begin!_failed.state \in Begin!Blocking
    BY <1>2 DEF Begin!ResolveFails, States, Begin!Steps, Begin!_failed, Begin!Blocking, Saves, Walks, Connected, Bound, Locked, HasJob, Migrated, Completed, Active
  <2>2. Begin!_record("configuration", Begin!_failed, "unity_catalog") /\ UNCHANGED <<deployed, stored, world, process, vouched>>
    BY <1>2 DEF Begin!ResolveFails, Begin!StayPut
  <2>3. QED
    BY <2>1, <2>2, RecordedStepsKeep
<1>3. QED
  BY <1>1, <1>2

(* A status says of the schemas what is true of them. *)
LEMMA GoodStorage ==
  ASSUME SetupInv, run.pc \in Bound, Begin!SetupAssumption, "ok" \in Begin!_schema_status(Begin!Place(process.bound))
  PROVE  world.schemas[Begin!Place(process.bound)] \in {"ours", "managed"}
PROOF
<1>1. Begin!Place(process.bound) \in Begin!Location
  BY ResolvedConfigs DEF SetupInv, WalkInv, Settled
<1>2. world.schemas[Begin!Place(process.bound)] \in {"absent", "ours", "foreign", "managed"}
  BY <1>1 DEF SetupInv, SetupTypes
<1>3. QED
  BY <1>2 DEF Begin!_schema_status

(* Looking at the storage, before and after it was created. *)
LEMMA StorageChecksKeep ==
  ASSUME Begin!SetupAssumption, SetupInv, NEW status, Begin!ensure_storage(status) \/ Begin!RecheckStorage(status)
  PROVE  SetupInv'
PROOF
<1>1. /\ run.pc \in Bound /\ run.pc \in Walks /\ Settled(run.pc) /\ status \in Begin!_schema_status(Begin!Place(process.bound))
      /\ "warehouse" \in Walks \ {"migrate"} /\ "volume" \in Walks \ {"migrate"} /\ "create" \in Walks \ {"migrate"}
      /\ "storage" \in Begin!Steps
  BY DEF Begin!ensure_storage, Begin!RecheckStorage, SetupInv, WalkInv, Begin!Steps, Saves, Walks, Connected, Bound, Locked, HasJob, Migrated, Completed, Active
<1>2. UNCHANGED <<deployed, stored, world, process, vouched>>
  BY DEF Begin!ensure_storage, Begin!RecheckStorage, Begin!StayPut
<1>3. CASE run' = [run EXCEPT !.pc = "volume"] /\ UNCHANGED report /\ status = "ok"
  <2>1. world.schemas[Begin!Place(process.bound)] \in {"ours", "managed"}
    BY <1>1, <1>3, GoodStorage
  <2>2. Settled("volume")
    BY <1>1, <2>1 DEF Settled, Saves, Walks, Connected, Bound, Locked, HasJob, Migrated, Completed, Active
  <2>3. QED
    BY <1>1, <1>2, <1>3, <2>2, SilentStepsKeep
<1>4. CASE run' = [run EXCEPT !.pc = "create"] /\ UNCHANGED report
  <2>1. Settled("create")
    BY <1>1 DEF Settled, Saves, Walks, Connected, Bound, Locked, HasJob, Migrated, Completed, Active
  <2>2. QED
    BY <1>1, <1>2, <1>4, <2>1, SilentStepsKeep
<1>5. ASSUME NEW r, r.state = "action_required", Begin!_record("storage", r, "warehouse")
      PROVE  SetupInv'
  BY <1>1, <1>2, <1>5, RecordedStepsKeep DEF States, Begin!Blocking
<1>6. QED
  <2>1. Begin!_action_required.state = "action_required" /\ [Begin!_action_required EXCEPT !.grants = (status = "incomplete")].state = "action_required"
    BY DEF Begin!_action_required
  <2>2. QED
    BY <1>3, <1>4, <1>5, <2>1 DEF Begin!ensure_storage, Begin!RecheckStorage

(* Access to the volume, before the configuration is locked. *)
LEMMA VolumeCheckKeeps ==
  ASSUME Begin!SetupAssumption, SetupInv, NEW r, Begin!_check_volume_access(r)
  PROVE  SetupInv'
PROOF
<1>1. /\ run.pc \in Walks /\ run.pc = "volume" /\ Settled(run.pc) /\ "storage" \in Begin!Steps
      /\ "warehouse" \in Walks \ {"migrate"} /\ "lock" \in Walks \ {"migrate"}
  BY DEF Begin!_check_volume_access, SetupInv, WalkInv, Begin!Steps, Saves, Walks, Connected, Bound, Locked, HasJob, Migrated, Completed, Active
<1>2. UNCHANGED <<deployed, stored, world, process, vouched>>
  BY DEF Begin!_check_volume_access, Begin!StayPut
<1>3. r.state \in {"passed", "action_required"} /\ (r.state = "passed" => r = Begin!_passed)
  BY DEF Begin!_check_volume_access, Begin!_passed, Begin!_action_required
<1>4. CASE r = Begin!_passed /\ ~stored.locked
  <2>1. Settled("lock")
    BY <1>1, <1>4 DEF Settled, Saves, Walks, Connected, Bound, Locked, HasJob, Migrated, Completed, Active
  <2>2. run' = [run EXCEPT !.pc = "lock"] /\ UNCHANGED report
    BY <1>4 DEF Begin!_check_volume_access
  <2>3. QED
    BY <1>1, <1>2, <2>1, <2>2, SilentStepsKeep
<1>5. CASE ~(r = Begin!_passed /\ ~stored.locked)
  <2>1. r.state \notin Begin!Blocking => Settled("warehouse")
    BY <1>1, <1>3, <1>5 DEF Settled, Begin!Blocking, Saves, Walks, Connected, Bound, Locked, HasJob, Migrated, Completed, Active
  <2>2. Begin!_record("storage", r, "warehouse")
    BY <1>5 DEF Begin!_check_volume_access
  <2>3. QED
    BY <1>1, <1>2, <1>3, <2>1, <2>2, RecordedStepsKeep DEF States
<1>6. QED
  BY <1>4, <1>5

(* Checks of the warehouse, of shared access and of the assistant. *)
LEMMA AccessChecksKeep ==
  ASSUME Begin!SetupAssumption, SetupInv,
         \/ \E r \in {Begin!_passed, Begin!Overridable(FALSE)} : Begin!check_warehouse(r)
         \/ \E c \in SUBSET {"missing", "unknown"}, s \in {"granted", "missing", "unknown", "not_applicable"} : Begin!reconcile_access(c, s)
         \/ \E q \in SUBSET {"endpoint", "missing", "unverified"} : Begin!check_ai_access(q)
         \/ Begin!AiSettingsUnreadable
  PROVE  SetupInv'
PROOF
<1>1. Settled(run.pc)
  BY DEF SetupInv, WalkInv
<1>2. /\ Begin!_passed.state \in States /\ (\A b : Begin!Overridable(b).state \in States) /\ (\A o, g : Begin!Warning(o, g).state \in States)
  BY DEF States, Begin!_passed, Begin!Overridable, Begin!Warning
<1>3. ASSUME NEW r \in {Begin!_passed, Begin!Overridable(FALSE)}, Begin!check_warehouse(r)
      PROVE  SetupInv'
  <2>1. run.pc \in Bound /\ "warehouse" \in Begin!OVERRIDABLE_STEPS /\ "task_runner" \in Walks \ {"migrate"} /\ Settled("task_runner") /\ r.state \in States
    BY <1>1, <1>2, <1>3 DEF Begin!check_warehouse, Begin!OVERRIDABLE_STEPS, Settled, Saves, Walks, Connected, Bound, Locked, HasJob, Migrated, Completed, Active
  <2>2. Begin!AdvanceBound("warehouse", r, "task_runner") /\ UNCHANGED <<deployed, world, process, vouched>>
    BY <1>3 DEF Begin!check_warehouse, Begin!Stay
  <2>3. QED
    BY <2>1, <2>2, BoundStepsKeep
<1>4. ASSUME NEW c \in SUBSET {"missing", "unknown"}, NEW s \in {"granted", "missing", "unknown", "not_applicable"}, Begin!reconcile_access(c, s)
      PROVE  SetupInv'
  <2>1. run.pc \in Bound /\ "access" \in Begin!OVERRIDABLE_STEPS /\ "ai" \in Walks \ {"migrate"} /\ Settled("ai")
    BY <1>1, <1>4 DEF Begin!reconcile_access, Begin!OVERRIDABLE_STEPS, Settled, Saves, Walks, Connected, Bound, Locked, HasJob, Migrated, Completed, Active
  <2>2. UNCHANGED <<deployed, world, process, vouched>>
    BY <1>4 DEF Begin!reconcile_access, Begin!Stay
  <2>3. PICK r : r.state \in States /\ Begin!AdvanceBound("access", r, "ai")
    <3> DEFINE r == IF c = {} /\ s \in {"granted", "not_applicable"} THEN Begin!_passed
                    ELSE Begin!Overridable("missing" \in c /\ (s # "unknown" \/ c # {}))
    <3>1. r.state \in States
      BY <1>2
    <3>2. Begin!AdvanceBound("access", r, "ai")
      BY <1>4 DEF Begin!reconcile_access
    <3>3. QED
      BY <3>1, <3>2, Zenon
  <2>4. QED
    BY <2>1, <2>2, <2>3, BoundStepsKeep
<1>5. ASSUME NEW q \in SUBSET {"endpoint", "missing", "unverified"}, Begin!check_ai_access(q)
      PROVE  SetupInv'
  <2>1. /\ run.pc \in Bound /\ run.pc \in Walks /\ "ai" \in Begin!OVERRIDABLE_STEPS
        /\ "app_sharing" \in Walks \ {"migrate"} /\ "ai_on" \in Walks \ {"migrate"} /\ "ai_off" \in Walks \ {"migrate"}
        /\ Settled("app_sharing") /\ Settled("ai_on") /\ Settled("ai_off")
    BY <1>1, <1>5 DEF Begin!check_ai_access, Begin!OVERRIDABLE_STEPS, Settled, Saves, Walks, Connected, Bound, Locked, HasJob, Migrated, Completed, Active
  <2>2. UNCHANGED <<deployed, world, process, vouched>>
    BY <1>5 DEF Begin!check_ai_access, Begin!Stay
  <2>3. \/ \E next \in {"ai_on", "ai_off"} : run' = [run EXCEPT !.pc = next] /\ UNCHANGED <<stored, report>>
        \/ \E r : r.state \in States /\ Begin!AdvanceBound("ai", r, "app_sharing")
    BY <1>2, <1>5 DEF Begin!check_ai_access
  <2>4. QED
    BY <2>1, <2>2, <2>3, BoundStepsKeep, SilentStepsKeep
<1>6. CASE Begin!AiSettingsUnreadable
  <2>1. /\ run.pc \in Walks /\ "ai" \in Begin!Steps /\ "app_sharing" \in Walks \ {"migrate"} /\ Settled("app_sharing")
        /\ Begin!Warning(FALSE, FALSE).state \in States
    BY <1>1, <1>2, <1>6 DEF Begin!AiSettingsUnreadable, Begin!Steps, Settled, Saves, Walks, Connected, Bound, Locked, HasJob, Migrated, Completed, Active
  <2>2. Begin!_record("ai", Begin!Warning(FALSE, FALSE), "app_sharing") /\ UNCHANGED <<deployed, stored, world, process, vouched>>
    BY <1>6 DEF Begin!AiSettingsUnreadable, Begin!StayPut
  <2>3. QED
    BY <2>1, <2>2, RecordedStepsKeep
<1>7. QED
  BY <1>3, <1>4, <1>5, <1>6

(* A check with a memo: what is trusted was verified in full, and so is what is
   remembered from then on. *)
LEMMA VerifiedStepsKeep ==
  ASSUME Begin!SetupAssumption, SetupInv, run.pc \in Bound, NEW step \in Begin!OVERRIDABLE_STEPS, NEW scope \in Begin!Scopes,
         NEW answer, NEW reusable, NEW next \in Walks \ {"migrate"}, Settled(next),
         Begin!requirement_fingerprint(scope, process.bound) # None,
         Begin!Verified(step, scope, answer, reusable, next), UNCHANGED <<deployed, world, process>>
  PROVE  SetupInv'
PROOF
<1> DEFINE fingerprint == Begin!requirement_fingerprint(scope, process.bound)
           byMemo == answer = reusable /\ answer # {} /\ Begin!Reuses(scope)
           r == IF answer = {} \/ byMemo THEN Begin!_passed ELSE Begin!Overridable("missing" \in answer)
<1>1. SetupTypes /\ VouchInv /\ run.pc \in Walks /\ step \in Begin!Steps /\ next \in Walks /\ run \in RunRecord
  BY DEF SetupInv, SetupTypes, Walks, Connected, Begin!OVERRIDABLE_STEPS, Begin!Steps
<1>2. process.bound \in Begin!Config
  BY ResolvedConfigs DEF SetupInv, WalkInv, Settled
<1>3. Begin!Requirement(scope, process.bound) = fingerprint
  BY DEF Begin!Requirement, Begin!requirement_fingerprint
<1>4. r.state # "overridden"
  BY DEF Begin!_passed, Begin!Overridable
<1>5. DOMAIN vouched = {"confirmed", "verified"}
  BY <1>1 DEF VouchInv
<1>6. Ends \/ GoesOn(next)
  <2>1. CASE byMemo
    <3>1. fingerprint \in vouched.verified
      BY <1>1, <2>1 DEF VouchInv, Begin!Reuses
    <3>2. /\ run' = [run EXCEPT !.pc = next, !.shown.trusted = @ \cup {fingerprint}]
          /\ report' = IF run.progress THEN [state |-> "initializing", shown |-> run'.shown] ELSE report
      BY <1>3, <2>1 DEF Begin!Verified
    <3>3. run'.shown \in ShownSet /\ run' \in RunRecord /\ run'.pc = next /\ run'.todo = run.todo
      BY <1>1, <3>1, <3>2 DEF RunRecord, ShownSet
    <3>4. QED
      BY <3>2, <3>3 DEF GoesOn
  <2>2. CASE ~byMemo
    <3>1. Begin!_record(step, Begin!_apply_override(step, r), next)
      BY <2>2 DEF Begin!Verified
    <3>2. Begin!_apply_override(step, r).state = "overridden" => Begin!Subject(step, process.bound) \in vouched.confirmed
      BY <1>1, <1>2, <1>4, OverridesWereConfirmed
    <3>3. QED
      BY <1>1, <3>1, <3>2, StepsAreRecorded
  <2>3. QED
    BY <2>1, <2>2
<1>7. \/ stored' = [stored EXCEPT !.overrides = Begin!Cleared(step, r), !.memo[scope] = fingerprint]
         /\ vouched' = [vouched EXCEPT !.verified = @ \cup {fingerprint}]
      \/ stored' = [stored EXCEPT !.overrides = Begin!Cleared(step, r)] /\ vouched' = vouched
  BY <1>3 DEF Begin!Verified, Begin!Record
<1>8. Vouching
  BY <1>5, <1>7 DEF Vouching
<1>9. /\ DOMAIN stored' = DOMAIN stored /\ stored'.choices = stored.choices /\ stored'.locked = stored.locked
      /\ stored'.completed = stored.completed /\ stored'.warehouse = stored.warehouse
      /\ stored'.overrides = Begin!Cleared(step, r)
      /\ DOMAIN stored'.memo = Begin!Scopes
      /\ \A s \in Begin!Scopes : stored'.memo[s] = None \/ stored'.memo[s] \in vouched'.verified
  <2>1. DOMAIN stored = {"choices", "locked", "overrides", "memo", "ai", "warehouse", "completed"} /\ DOMAIN stored.memo = Begin!Scopes
        /\ \A s \in Begin!Scopes : stored.memo[s] = None \/ stored.memo[s] \in vouched.verified
    BY <1>1 DEF SetupTypes, VouchInv
  <2> HIDE DEF fingerprint, r, byMemo
  <2>2. CASE stored' = [stored EXCEPT !.overrides = Begin!Cleared(step, r), !.memo[scope] = fingerprint]
             /\ vouched' = [vouched EXCEPT !.verified = @ \cup {fingerprint}]
    BY <1>5, <2>1, <2>2
  <2>3. CASE stored' = [stored EXCEPT !.overrides = Begin!Cleared(step, r)] /\ vouched' = vouched
    BY <2>1, <2>3
  <2>4. QED
    BY <1>7, <2>2, <2>3
<1>10. /\ DOMAIN stored'.overrides = Begin!OVERRIDABLE_STEPS
       /\ \A s \in Begin!OVERRIDABLE_STEPS : stored'.overrides[s] = None \/ stored'.overrides[s] \in vouched'.confirmed
  BY <1>1, <1>8, <1>9, ClearedOverrides DEF Vouching
<1>11. Settled(run'.pc)
  BY <1>6, NothingIsSettled DEF Ends, GoesOn, Begin!Idle
<1>12. QED
  BY <1>1, <1>6, <1>8, <1>9, <1>10, <1>11, QuietSteps

(* The checks of Unity Catalog and of the runner. *)
LEMMA MemoChecksKeep ==
  ASSUME Begin!SetupAssumption, SetupInv,
         \/ \E a \in SUBSET {"missing", "catalog"} : Begin!check_unity_catalog(a)
         \/ \E a \in SUBSET {"missing", "catalog", "schema"} :
              \/ Begin!check_runner_access("runner_access", "task_runner", a, "wheels")
              \/ Begin!check_runner_access("outputs", "task_runner_outputs", a, "completion")
  PROVE  SetupInv'
PROOF
<1>1. Settled(run.pc) /\ SetupTypes
  BY DEF SetupInv, WalkInv
<1>2. ASSUME NEW a \in SUBSET {"missing", "catalog"}, Begin!check_unity_catalog(a)
      PROVE  SetupInv'
  <2>1. /\ run.pc \in Bound /\ "unity_catalog" \in Begin!OVERRIDABLE_STEPS /\ "unity_catalog" \in Begin!Scopes
        /\ "storage" \in Walks \ {"migrate"} /\ Settled("storage")
    BY <1>1, <1>2 DEF Begin!check_unity_catalog, Begin!OVERRIDABLE_STEPS, Begin!Scopes, Settled, Saves, Walks, Connected, Bound, Locked, HasJob, Migrated, Completed, Active
  <2>2. process.bound \in Begin!Config
    BY <2>1, ResolvedConfigs DEF SetupInv, WalkInv, Settled
  <2>3. Begin!requirement_fingerprint("unity_catalog", process.bound) # None
    BY <2>1, <2>2 DEF Begin!requirement_fingerprint, Begin!SetupAssumption, Begin!Config, Begin!Field
  <2>4. Begin!Verified("unity_catalog", "unity_catalog", a, {"catalog"}, "storage") /\ UNCHANGED <<deployed, world, process>>
    BY <1>2 DEF Begin!check_unity_catalog
  <2>5. QED
    BY <2>1, <2>3, <2>4, VerifiedStepsKeep
<1>3. ASSUME NEW pc, NEW scope, NEW next, NEW a, <<pc, scope, next>> \in {<<"runner_access", "task_runner", "wheels">>, <<"outputs", "task_runner_outputs", "completion">>},
             Begin!check_runner_access(pc, scope, a, next)
      PROVE  SetupInv'
  <2>1. /\ run.pc \in Bound /\ run.pc \in Walks /\ "task_runner" \in Begin!OVERRIDABLE_STEPS /\ "task_runner" \in Begin!Steps
        /\ scope \in Begin!Scopes \ {"unity_catalog"} /\ next \in Walks \ {"migrate"} /\ Settled(next)
    <3>1. CASE pc = "runner_access" /\ scope = "task_runner" /\ next = "wheels"
      BY <1>1, <1>3, <3>1 DEF Begin!check_runner_access, Begin!OVERRIDABLE_STEPS, Begin!Steps, Begin!Scopes, Settled, Saves, Walks, Connected, Bound, Locked, HasJob, Migrated, Completed, Active
    <3>2. CASE pc = "outputs" /\ scope = "task_runner_outputs" /\ next = "completion"
      BY <1>1, <1>3, <3>2 DEF Begin!check_runner_access, Begin!OVERRIDABLE_STEPS, Begin!Steps, Begin!Scopes, Settled, Saves, Walks, Connected, Bound, Locked, HasJob, Migrated, Completed, Active
    <3>3. QED
      BY <1>3, <3>1, <3>2
  <2>2. process.bound \in Begin!Config /\ Begin!Place(process.bound) \in Begin!Location
    BY <2>1, ResolvedConfigs DEF SetupInv, WalkInv, Settled
  <2>3. CASE process.job \notin world.jobs \/ world.runAs[process.job] = Begin!App
    <3>1. /\ Begin!_record("task_runner", Begin!_action_required, next) /\ UNCHANGED <<deployed, stored, world, process, vouched>>
          /\ Begin!_action_required.state \in States
      BY <1>3, <2>3 DEF Begin!check_runner_access, Begin!_action_required, States
    <3>2. QED
      BY <2>1, <3>1, RecordedStepsKeep
  <2>4. CASE ~(process.job \notin world.jobs \/ world.runAs[process.job] = Begin!App)
    <3>1. world.runAs[process.job] \in Names \cup {Begin!App}
      BY <1>1, <2>4 DEF SetupTypes
    <3>2. Begin!requirement_fingerprint(scope, process.bound) = <<scope, Begin!Place(process.bound), world.runAs[process.job]>>
      BY <2>1 DEF Begin!requirement_fingerprint
    <3>3. Begin!requirement_fingerprint(scope, process.bound) # None
      BY <2>1, <2>2, <3>1, <3>2 DEF Begin!SetupAssumption
    <3>4. Begin!Verified("task_runner", scope, a, {"catalog"}, next) /\ UNCHANGED <<deployed, world, process>>
      BY <1>3, <2>4 DEF Begin!check_runner_access
    <3>5. QED
      BY <2>1, <3>3, <3>4, VerifiedStepsKeep
  <2>5. QED
    BY <2>3, <2>4
<1>4. QED
  BY <1>2, <1>3

(* What a step of a walk leaves alone, whatever it does to the workspace, to
   the process and to what is locked and completed. *)
LEMMA WalkStepsKeep ==
  ASSUME Begin!SetupAssumption, SetupInv, run.pc \in Walks, UNCHANGED <<deployed, vouched>>,
         DOMAIN stored' = DOMAIN stored, stored'.choices = stored.choices, stored'.overrides = stored.overrides,
         stored'.memo = stored.memo, stored'.warehouse = stored.warehouse, stored'.locked \in BOOLEAN, stored'.completed \in BOOLEAN,
         DOMAIN world' = DOMAIN world,
         world'.schemas \in [Begin!Location -> {"absent", "ours", "foreign", "managed"}],
         world'.delta \in [Begin!Location -> Progress],
         world'.jobs \in SUBSET Jobs, world'.runAs \in [Jobs -> Names \cup {Begin!App}],
         process' \in Processes,
         NEW next \in Walks \ {"migrate"}, Ends \/ GoesOn(next)
  PROVE  /\ SetupTypes' /\ VouchInv' /\ Begin!Resolved' = Begin!Resolved
         /\ run'.pc \in {"idle", next} /\ run'.pc # "migrate"
         /\ report'.state = "ready" => report.state = "ready"
PROOF
<1>1. Vouching
  BY DEF SetupInv, Vouching, VouchInv
<1>2. /\ run'.pc \in {"idle"} \cup Walks /\ run'.pc \in {"idle", next} /\ (run'.pc \in Walks => (run \in RunRecord)')
      /\ Begin!VouchedForThis'
      /\ report'.state = "ready" => report.state = "ready"
  BY <1>1, ShownIsVouchedFor DEF SetupInv
<1>3. SetupTypes'
  BY <1>2 DEF SetupInv, SetupTypes, Saves, Walks, Connected, Bound, Locked, HasJob, Migrated, Completed, Active
<1>4. VouchInv'
  BY <1>2 DEF SetupInv, VouchInv
<1>5. QED
  BY <1>2, <1>3, <1>4, ResolvedIsKept

(* The migrations of Postgres, and what is resolved and bound. *)
LEMMA PostgresMigrationsKeep ==
  ASSUME Begin!SetupAssumption, SetupInv, NEW upto \in 0 .. Len(Begin!Statements), Begin!RunPostgresMigrations(upto)
  PROVE  SetupInv'
PROOF
<1>1. /\ run.pc \in Walks /\ Settled(run.pc) /\ "lakebase" \in Begin!Steps /\ "configuration" \in Walks \ {"migrate"} /\ SetupTypes
      /\ run.pc = "postgres"
  BY DEF Begin!RunPostgresMigrations, SetupInv, WalkInv, Begin!Steps, Saves, Walks, Connected, Bound, Locked, HasJob, Migrated, Completed, Active
<1>2. Len(Begin!Statements) = 2
  BY DEF Begin!Statements
<1>3. IF upto = 2 THEN GoesOn("configuration") ELSE Ends
  <2>1. Begin!_passed.state = "passed" /\ Begin!_failed.state = "failed" /\ "passed" \notin Begin!Blocking /\ "failed" \in Begin!Blocking
    BY DEF Begin!_passed, Begin!_failed, Begin!Blocking
  <2>2. CASE upto = 2
    BY <1>1, <1>2, <2>1, <2>2, StepsAreRecorded DEF Begin!RunPostgresMigrations
  <2>3. CASE upto # 2
    BY <1>1, <1>2, <2>1, <2>3, StepsAreRecorded DEF Begin!RunPostgresMigrations
  <2>4. QED
    BY <2>2, <2>3
<1>4. /\ UNCHANGED <<deployed, stored, vouched, process>> /\ world' = [world EXCEPT !.postgres = upto] /\ upto \in world.postgres .. 2
  BY <1>2 DEF Begin!RunPostgresMigrations, Begin!Stay
<1>5. /\ DOMAIN world' = DOMAIN world /\ world'.schemas = world.schemas /\ world'.delta = world.delta /\ world'.jobs = world.jobs
      /\ world'.runAs = world.runAs /\ world'.postgres = upto
  BY <1>1, <1>4 DEF SetupTypes
<1>6. /\ SetupTypes' /\ VouchInv' /\ Begin!Resolved' = Begin!Resolved
      /\ run'.pc \in {"idle", "configuration"} /\ run'.pc # "migrate"
      /\ report'.state = "ready" => report.state = "ready"
  BY <1>1, <1>3, <1>4, <1>5, WalkStepsKeep DEF SetupTypes
<1>7. run'.pc = "configuration" => upto = 2
  BY <1>3 DEF Ends, Begin!Idle
<1>8. WalkInv'
  BY <1>1, <1>4, <1>5, <1>6, <1>7 DEF SetupInv, WalkInv, Settled, Saves, Walks, Connected, Bound, Locked, HasJob, Migrated, Completed, Active
<1>9. Begin!LockNamesTheStorage'
  BY <1>4, <1>5, <1>6 DEF SetupInv, Begin!LockNamesTheStorage
<1>10. Earned'
  BY <1>4, <1>5, <1>6 DEF SetupInv, Earned, WalkInv
<1>11. MigrateInv' /\ OneJob'
  BY <1>5, <1>6 DEF SetupInv, MigrateInv, OneJob
<1>12. QED
  BY <1>6, <1>8, <1>9, <1>10, <1>11 DEF SetupInv

LEMMA ResolvedStepKeeps ==
  ASSUME Begin!SetupAssumption, SetupInv, NEW fails \in BOOLEAN, Begin!_resolve_configuration(fails)
  PROVE  SetupInv'
PROOF
<1>1. /\ run.pc \in Walks /\ Settled(run.pc) /\ "configuration" \in Begin!Steps /\ "unity_catalog" \in Walks \ {"migrate"} /\ SetupTypes
      /\ run.pc = "configuration"
  BY DEF Begin!_resolve_configuration, SetupInv, WalkInv, Begin!Steps, Saves, Walks, Connected, Bound, Locked, HasJob, Migrated, Completed, Active
<1>2. UNCHANGED <<deployed, stored, vouched, world>>
  BY DEF Begin!_resolve_configuration, Begin!Stay
<1>3. /\ Begin!_passed.state = "passed" /\ Begin!_failed.state = "failed" /\ Begin!_action_required.state = "action_required"
      /\ "passed" \notin Begin!Blocking /\ "failed" \in Begin!Blocking /\ "action_required" \in Begin!Blocking
  BY DEF Begin!_passed, Begin!_failed, Begin!_action_required, Begin!Blocking
<1>4. \/ /\ Begin!Resolved = None /\ process' = process /\ Begin!_record("configuration", Begin!_action_required, "unity_catalog")
      \/ /\ Begin!Resolved # None /\ process.bound # Begin!Resolved
         /\ process' = [process EXCEPT !.bound = None, !.context = Begin!Released]
         /\ Begin!_record("configuration", Begin!_failed, "unity_catalog")
      \/ /\ Begin!Resolved # None /\ process.bound = Begin!Resolved /\ process' = process
         /\ Begin!_record("configuration", Begin!_passed, "unity_catalog")
      \/ /\ Begin!Resolved # None /\ process.bound # Begin!Resolved
         /\ process' = [process EXCEPT !.bound = Begin!Resolved, !.context = [Begin!Released EXCEPT !.config = Begin!Resolved]]
         /\ Begin!_record("configuration", Begin!_passed, "unity_catalog")
  BY DEF Begin!_resolve_configuration
<1>5. Ends \/ (GoesOn("unity_catalog") /\ Begin!Resolved # None /\ process'.bound = Begin!Resolved)
  <2>1. ASSUME Begin!_record("configuration", Begin!_passed, "unity_catalog") PROVE GoesOn("unity_catalog")
    BY <1>1, <1>3, <2>1, StepsAreRecorded
  <2>2. ASSUME NEW r \in {Begin!_failed, Begin!_action_required}, Begin!_record("configuration", r, "unity_catalog") PROVE Ends
    BY <1>1, <1>3, <2>2, StepsAreRecorded
  <2>3. process \in Processes
    BY <1>1 DEF SetupTypes
  <2>4. QED
    BY <1>4, <2>1, <2>2, <2>3 DEF Processes
<1>6. /\ process' \in Processes
      /\ process'.bound \in {process.bound, None, Begin!Resolved}
      /\ process'.bound # None => process'.context.config = process'.bound
      /\ process.bound = Begin!Resolved => process' = process
  <2>1. Begin!Resolved \in Begin!Config \cup {None}
    BY <1>1, ResolvedConfigs
  <2>2. process.bound # None => process.context.config = process.bound
    BY DEF SetupInv, WalkInv
  <2>3. Begin!Released = [config |-> None, opened |-> FALSE, active |-> FALSE]
    BY DEF Begin!Released, Begin!Closed
  <2>4. process \in Processes /\ Begin!Resolved \in ConfigOrNone /\ None \in ConfigOrNone
    BY <1>1, <2>1 DEF SetupTypes, ConfigOrNone
  <2>5. CASE process' = process
    BY <2>2, <2>4, <2>5
  <2>6. ASSUME NEW b \in ConfigOrNone, b \in {None, Begin!Resolved}, process.bound # Begin!Resolved,
               process' = [process EXCEPT !.bound = b, !.context = [config |-> b, opened |-> FALSE, active |-> FALSE]]
        PROVE  process' \in Processes /\ process'.bound = b /\ process'.context.config = b
    BY <2>4, <2>6 DEF Processes
  <2>7. [Begin!Released EXCEPT !.config = Begin!Resolved] = [config |-> Begin!Resolved, opened |-> FALSE, active |-> FALSE]
    <3>1. \A x, y : [[config |-> y, opened |-> FALSE, active |-> FALSE] EXCEPT !.config = x] = [config |-> x, opened |-> FALSE, active |-> FALSE]
      OBVIOUS
    <3>2. QED
      BY <2>3, <3>1, Zenon
  <2>8. CASE process.bound # Begin!Resolved /\ process' = [process EXCEPT !.bound = None, !.context = Begin!Released]
    BY <2>3, <2>4, <2>6, <2>8
  <2>9. CASE process.bound # Begin!Resolved
             /\ process' = [process EXCEPT !.bound = Begin!Resolved, !.context = [Begin!Released EXCEPT !.config = Begin!Resolved]]
    BY <2>4, <2>6, <2>7, <2>9
  <2>10. QED
    BY <1>4, <2>5, <2>8, <2>9
<1>7. /\ SetupTypes' /\ VouchInv' /\ Begin!Resolved' = Begin!Resolved
      /\ run'.pc \in {"idle", "unity_catalog"} /\ run'.pc # "migrate"
      /\ report'.state = "ready" => report.state = "ready"
  BY <1>1, <1>2, <1>5, <1>6, WalkStepsKeep DEF SetupTypes
<1>8. run'.pc = "unity_catalog" => process'.bound = Begin!Resolved /\ Begin!Resolved # None
  BY <1>5 DEF Ends, Begin!Idle
<1>9. WalkInv'
  BY <1>1, <1>2, <1>6, <1>7, <1>8 DEF SetupInv, WalkInv, Settled, Saves, Walks, Connected, Bound, Locked, HasJob, Migrated, Completed, Active
<1>10. Begin!LockNamesTheStorage'
  BY <1>2, <1>6, <1>7 DEF SetupInv, Begin!LockNamesTheStorage
<1>11. Earned'
  BY <1>2, <1>6, <1>7 DEF SetupInv, Earned
<1>12. MigrateInv' /\ OneJob'
  BY <1>2, <1>7 DEF SetupInv, MigrateInv, OneJob
<1>13. QED
  BY <1>7, <1>9, <1>10, <1>11, <1>12 DEF SetupInv

(* Creating the storage, and locking the configuration over it. *)
LEMMA CreateStepKeeps ==
  ASSUME Begin!SetupAssumption, SetupInv, NEW fails \in BOOLEAN, Begin!_create_storage(fails)
  PROVE  SetupInv'
PROOF
<1> DEFINE l == Begin!Place(process.bound)
<1>1. /\ run.pc \in Walks /\ Settled(run.pc) /\ "storage" \in Begin!Steps /\ "warehouse" \in Walks \ {"migrate"} /\ SetupTypes
      /\ run.pc = "create" /\ "recheck" \in Walks \ {"migrate"}
  BY DEF Begin!_create_storage, SetupInv, WalkInv, Begin!Steps, Saves, Walks, Connected, Bound, Locked, HasJob, Migrated, Completed, Active
<1>2. UNCHANGED <<deployed, stored, vouched, process>>
  BY DEF Begin!_create_storage, Begin!Stay
<1>3. l \in Begin!Location /\ process.bound = Begin!Resolved
  BY <1>1, ResolvedConfigs DEF Settled, Bound
<1>4. CASE fails
  <2>1. Begin!_action_required.state \in States /\ Begin!_action_required.state \in Begin!Blocking
    BY DEF Begin!_action_required, States, Begin!Blocking
  <2>2. Begin!_record("storage", Begin!_action_required, "warehouse") /\ UNCHANGED <<deployed, stored, world, process, vouched>>
    BY <1>2, <1>4 DEF Begin!_create_storage
  <2>3. QED
    BY <1>1, <2>1, <2>2, RecordedStepsKeep
<1>5. CASE ~fails
  <2>1. /\ world' = [world EXCEPT !.schemas[l] = IF @ = "absent" THEN "ours" ELSE @]
        /\ run' = [run EXCEPT !.pc = "recheck"] /\ UNCHANGED report
    BY <1>5 DEF Begin!_create_storage
  <2>2. GoesOn("recheck")
    BY <1>1, <2>1, StepsGoOn
  <2>3. /\ DOMAIN world' = DOMAIN world /\ world'.delta = world.delta /\ world'.jobs = world.jobs
        /\ world'.runAs = world.runAs /\ world'.postgres = world.postgres
        /\ world'.schemas = [world.schemas EXCEPT ![l] = IF @ = "absent" THEN "ours" ELSE @]
    BY <1>1, <2>1 DEF SetupTypes
  <2>4. /\ world'.schemas \in [Begin!Location -> {"absent", "ours", "foreign", "managed"}]
        /\ world.schemas[l] \in {"ours", "managed"} => world'.schemas[l] \in {"ours", "managed"}
    BY <1>1, <1>3, <2>3 DEF SetupTypes
  <2>5. /\ SetupTypes' /\ VouchInv' /\ Begin!Resolved' = Begin!Resolved
        /\ run'.pc \in {"idle", "recheck"} /\ run'.pc # "migrate"
        /\ report'.state = "ready" => report.state = "ready"
    BY <1>1, <1>2, <2>2, <2>3, <2>4, WalkStepsKeep DEF SetupTypes
  <2>6. WalkInv'
    BY <1>1, <1>2, <2>3, <2>5 DEF SetupInv, WalkInv, Settled, Saves, Walks, Connected, Bound, Locked, HasJob, Migrated, Completed, Active
  <2>7. Begin!LockNamesTheStorage'
    BY <1>2, <1>3, <2>4, <2>5 DEF SetupInv, Begin!LockNamesTheStorage
  <2>8. Earned'
    BY <1>2, <2>3, <2>5 DEF SetupInv, Earned
  <2>9. MigrateInv' /\ OneJob'
    BY <2>3, <2>5 DEF SetupInv, MigrateInv, OneJob
  <2>10. QED
    BY <2>5, <2>6, <2>7, <2>8, <2>9 DEF SetupInv
<1>6. QED
  BY <1>4, <1>5

LEMMA LockStepKeeps ==
  ASSUME Begin!SetupAssumption, SetupInv, NEW fails \in BOOLEAN, Begin!LockConfiguration(fails)
  PROVE  SetupInv'
PROOF
<1>1. /\ run.pc \in Walks /\ Settled(run.pc) /\ "storage" \in Begin!Steps /\ "warehouse" \in Walks \ {"migrate"} /\ SetupTypes
      /\ run.pc = "lock"
  BY DEF Begin!LockConfiguration, SetupInv, WalkInv, Begin!Steps, Saves, Walks, Connected, Bound, Locked, HasJob, Migrated, Completed, Active
<1>2. UNCHANGED <<deployed, vouched, process, world>> /\ stored' = [stored EXCEPT !.locked = ~fails]
  BY DEF Begin!LockConfiguration, Begin!Stay
<1>3. /\ DOMAIN stored' = DOMAIN stored /\ stored'.choices = stored.choices /\ stored'.overrides = stored.overrides
      /\ stored'.memo = stored.memo /\ stored'.warehouse = stored.warehouse /\ stored'.completed = stored.completed
      /\ stored'.locked = ~fails
  BY <1>1, <1>2 DEF SetupTypes
<1>4. process.bound = Begin!Resolved /\ process.bound # None /\ world.schemas[Begin!Place(process.bound)] \in {"ours", "managed"} /\ ~stored.locked
  BY <1>1 DEF Settled, Bound
<1>5. Ends \/ (GoesOn("warehouse") /\ ~fails)
  <2>1. /\ Begin!_passed.state = "passed" /\ Begin!_failed.state = "failed" /\ "passed" \notin Begin!Blocking /\ "failed" \in Begin!Blocking
    BY DEF Begin!_passed, Begin!_failed, Begin!Blocking
  <2>2. CASE fails
    <3>1. Begin!_record("storage", Begin!_failed, "warehouse")
      BY <2>2 DEF Begin!LockConfiguration
    <3>2. QED
      BY <1>1, <2>1, <3>1, StepsAreRecorded
  <2>3. CASE ~fails
    <3>1. Begin!_record("storage", Begin!_passed, "warehouse")
      BY <2>3 DEF Begin!LockConfiguration
    <3>2. QED
      BY <1>1, <2>1, <2>3, <3>1, StepsAreRecorded
  <2>4. QED
    BY <2>2, <2>3
<1>6. /\ SetupTypes' /\ VouchInv' /\ Begin!Resolved' = Begin!Resolved
      /\ run'.pc \in {"idle", "warehouse"} /\ run'.pc # "migrate"
      /\ report'.state = "ready" => report.state = "ready"
  BY <1>1, <1>2, <1>3, <1>5, WalkStepsKeep DEF SetupTypes
<1>7. run'.pc = "warehouse" => ~fails
  BY <1>5 DEF Ends, Begin!Idle
<1>8. WalkInv'
  BY <1>1, <1>2, <1>3, <1>6, <1>7 DEF SetupInv, WalkInv, Settled, Saves, Walks, Connected, Bound, Locked, HasJob, Migrated, Completed, Active
<1>9. Begin!LockNamesTheStorage'
  BY <1>2, <1>4, <1>6 DEF Begin!LockNamesTheStorage
<1>10. Earned'
  BY <1>4, <1>6 DEF SetupInv, Earned
<1>11. MigrateInv' /\ OneJob'
  BY <1>2, <1>6 DEF SetupInv, MigrateInv, OneJob
<1>12. QED
  BY <1>6, <1>8, <1>9, <1>10, <1>11 DEF SetupInv

(* Finding or creating the job: whoever has none and finds none creates one. *)
LEMMA JobStepKeeps ==
  ASSUME Begin!SetupAssumption, SetupInv, NEW j \in {1, 2}, Begin!_reconcile_job(j)
  PROVE  SetupInv'
PROOF
<1> DEFINE created == process.job = None /\ ~deployed /\ j \notin world.jobs
           missing == j \notin world.jobs /\ ~created
<1>1. /\ run.pc \in Walks /\ Settled(run.pc) /\ "task_runner" \in Begin!Steps /\ "wheels" \in Walks \ {"migrate"} /\ SetupTypes
      /\ run.pc = "task_runner" /\ "runner_access" \in Walks \ {"migrate"}
  BY DEF Begin!_reconcile_job, SetupInv, WalkInv, Begin!Steps, Saves, Walks, Connected, Bound, Locked, HasJob, Migrated, Completed, Active
<1>2. /\ UNCHANGED <<deployed, stored, vouched>> /\ Begin!ResolveJob(j)
      /\ world' = IF created THEN [world EXCEPT !.jobs = @ \cup {j}, !.runAs[j] = Begin!App] ELSE world
      /\ process' = [process EXCEPT !.job = IF missing THEN None ELSE j]
      /\ \/ missing /\ Begin!_record("task_runner", Begin!_failed, "wheels")
         \/ ~missing /\ Begin!_record("task_runner", Begin!_action_required, "wheels")
         \/ ~missing /\ run' = [run EXCEPT !.pc = "runner_access"] /\ UNCHANGED report
  BY Zenon DEF Begin!_reconcile_job, Begin!Stay
<1>3. Ends \/ (GoesOn("runner_access") /\ ~missing)
  <2>1. /\ Begin!_failed.state = "failed" /\ "failed" \in Begin!Blocking
        /\ Begin!_action_required.state = "action_required" /\ "action_required" \in Begin!Blocking
    BY DEF Begin!_action_required, Begin!_failed, Begin!Blocking
  <2>2. ASSUME NEW r \in {Begin!_failed, Begin!_action_required}, Begin!_record("task_runner", r, "wheels") PROVE Ends
    BY <1>1, <2>1, <2>2, StepsAreRecorded
  <2>3. ASSUME run' = [run EXCEPT !.pc = "runner_access"], UNCHANGED report PROVE GoesOn("runner_access")
    BY <1>1, <2>3, StepsGoOn
  <2> HIDE DEF missing, created
  <2>4. QED
    BY <1>2, <2>2, <2>3
<1>4. /\ process' \in Processes /\ process'.bound = process.bound /\ process'.context = process.context
      /\ process'.job = IF missing THEN None ELSE j
  <2>1. process \in Processes /\ j \in JobOrNone /\ None \in JobOrNone
    BY <1>1 DEF SetupTypes, JobOrNone, Jobs
  <2> HIDE DEF missing, created
  <2>2. QED
    BY <1>2, <2>1 DEF Processes
<1>5. /\ DOMAIN world' = DOMAIN world /\ world'.delta = world.delta /\ world'.schemas = world.schemas /\ world'.postgres = world.postgres
      /\ world'.jobs = (IF created THEN world.jobs \cup {j} ELSE world.jobs)
      /\ world'.runAs \in [Jobs -> Names \cup {Begin!App}]
  <2>1. DOMAIN world = {"schemas", "delta", "postgres", "jobs", "runAs"} /\ world.runAs \in [Jobs -> Names \cup {Begin!App}]
    BY <1>1 DEF SetupTypes
  <2>2. CASE created
    <3>1. world' = [world EXCEPT !.jobs = @ \cup {j}, !.runAs[j] = Begin!App]
      BY <1>2, <2>2
    <3> HIDE DEF created, missing
    <3>2. QED
      BY <2>1, <2>2, <3>1
  <2>3. CASE ~created
    BY <1>2, <2>1, <2>3
  <2>4. QED
    BY <2>2, <2>3
<1>6. world'.jobs \in SUBSET Jobs
  BY <1>1, <1>5 DEF SetupTypes, Jobs
<1>7. created => world.jobs = {}
  BY <1>2 DEF Begin!ResolveJob
<1>9. /\ SetupTypes' /\ VouchInv' /\ Begin!Resolved' = Begin!Resolved
      /\ run'.pc \in {"idle", "runner_access"} /\ run'.pc # "migrate"
      /\ report'.state = "ready" => report.state = "ready"
  <2> HIDE DEF missing, created
  <2>1. QED
    BY <1>1, <1>2, <1>3, <1>4, <1>5, <1>6, WalkStepsKeep DEF SetupTypes
<1>10. j # None
  BY DEF Begin!SetupAssumption
<1>11. run'.pc = "runner_access" => process'.job # None
  BY <1>3, <1>4, <1>10 DEF Ends, Begin!Idle
<1>12. WalkInv'
  BY <1>1, <1>2, <1>4, <1>5, <1>9, <1>11 DEF SetupInv, WalkInv, Settled, Saves, Walks, Connected, Bound, Locked, HasJob, Migrated, Completed, Active
<1>13. Begin!LockNamesTheStorage'
  BY <1>2, <1>4, <1>5, <1>9 DEF SetupInv, Begin!LockNamesTheStorage
<1>14. Earned'
  <2>1. report'.state = "ready" => process'.job # None
    <3>1. CASE missing
      BY <1>3, <3>1 DEF Ends
    <3>2. CASE ~missing
      BY <1>4, <1>10, <3>2
    <3>3. QED
      BY <3>1, <3>2
  <2>2. QED
    BY <1>2, <1>4, <1>5, <1>9, <2>1 DEF SetupInv, Earned
<1>15. MigrateInv'
  BY <1>5, <1>9 DEF SetupInv, MigrateInv
<1>16. OneJob'
  BY <1>5, <1>7 DEF SetupInv, OneJob
<1>17. QED
  BY <1>9, <1>12, <1>13, <1>14, <1>15, <1>16 DEF SetupInv

(* A call for the job that fails; the wheels, and switching the assistant. *)
LEMMA JobCallKeeps ==
  ASSUME Begin!SetupAssumption, SetupInv, Begin!JobCallFails
  PROVE  SetupInv'
PROOF
<1>1. /\ run.pc \in Walks /\ "wheels" \in Walks \ {"migrate"} /\ "task_runner" \in Begin!Steps
      /\ Begin!_failed.state \in States /\ Begin!_failed.state \in Begin!Blocking
  BY DEF Begin!JobCallFails, States, Begin!Steps, Begin!_failed, Begin!Blocking, Walks, Connected, Bound, Locked, HasJob, Migrated, Completed, Active
<1>2. Begin!_record("task_runner", Begin!_failed, "wheels") /\ UNCHANGED <<deployed, stored, world, process, vouched>>
  BY DEF Begin!JobCallFails, Begin!StayPut
<1>3. QED
  BY <1>1, <1>2, RecordedStepsKeep

LEMMA WheelsAndAiKeep ==
  ASSUME Begin!SetupAssumption, SetupInv,
         (\E r \in {Begin!_passed, Begin!_failed} : Begin!_reconcile_wheels(r)) \/ (\E f \in BOOLEAN : Begin!SaveAiEnabled(f))
  PROVE  SetupInv'
PROOF
<1>1. Settled(run.pc) /\ SetupTypes /\ VouchInv
  BY DEF SetupInv, WalkInv
<1>2. ASSUME NEW r \in {Begin!_passed, Begin!_failed}, Begin!_reconcile_wheels(r)
      PROVE  SetupInv'
  <2>1. run.pc \in Walks /\ "plan" \in Walks \ {"migrate"} /\ Settled("plan") /\ "wheels" \in Begin!Steps /\ r.state \in States
    BY <1>1, <1>2 DEF Begin!_reconcile_wheels, Begin!Steps, States, Begin!_passed, Begin!_failed, Settled, Saves, Walks, Connected, Bound, Locked, HasJob, Migrated, Completed, Active
  <2>2. Begin!_record("wheels", r, "plan") /\ UNCHANGED <<deployed, stored, world, process, vouched>>
    BY <1>2 DEF Begin!_reconcile_wheels, Begin!StayPut
  <2>3. QED
    BY <2>1, <2>2, RecordedStepsKeep
<1>3. ASSUME NEW f \in BOOLEAN, Begin!SaveAiEnabled(f)
      PROVE  SetupInv'
  <2>1. /\ run.pc \in Walks /\ "app_sharing" \in Walks \ {"migrate"} /\ Settled("app_sharing") /\ run.pc \in Bound
        /\ "ai" \in Begin!Steps /\ "ai" \in Begin!OVERRIDABLE_STEPS
    BY <1>1, <1>3 DEF Begin!SaveAiEnabled, Begin!Steps, Begin!OVERRIDABLE_STEPS, Settled, Saves, Walks, Connected, Bound, Locked, HasJob, Migrated, Completed, Active
  <2>2. PICK r, ai : /\ r.state \in States /\ Begin!_record("ai", Begin!_apply_override("ai", r), "app_sharing")
                     /\ stored' = [stored EXCEPT !.overrides = Begin!Cleared("ai", r), !.ai = ai]
                     /\ UNCHANGED <<deployed, world, process, vouched>>
    <3> DEFINE on == run.pc = "ai_on"
               ai == IF f THEN stored.ai ELSE [enabled |-> on, source |-> "setup"]
               r == IF ~on THEN Begin!Warning(TRUE, FALSE) ELSE IF f THEN Begin!Warning(FALSE, FALSE) ELSE Begin!_passed
    <3>1. r.state \in States
      BY DEF States, Begin!Warning, Begin!_passed
    <3>2. /\ Begin!_record("ai", Begin!_apply_override("ai", r), "app_sharing")
          /\ stored' = [stored EXCEPT !.overrides = Begin!Cleared("ai", r), !.ai = ai]
          /\ UNCHANGED <<deployed, world, process, vouched>>
      BY <1>3 DEF Begin!SaveAiEnabled, Begin!Stay
    <3>3. QED
      BY <3>1, <3>2, Zenon
  <2>3. process.bound \in Begin!Config
    BY <2>1, ResolvedConfigs DEF SetupInv, WalkInv, Settled
  <2>4. Begin!_apply_override("ai", r).state = "overridden" => Begin!Subject("ai", process.bound) \in vouched.confirmed
    BY <1>1, <2>1, <2>2, <2>3, OverridesWereConfirmed DEF States
  <2>5. Ends \/ GoesOn("app_sharing")
    BY <1>1, <2>1, <2>2, <2>4, StepsAreRecorded
  <2>6. /\ DOMAIN stored' = DOMAIN stored /\ stored'.choices = stored.choices /\ stored'.locked = stored.locked
        /\ stored'.completed = stored.completed /\ stored'.warehouse = stored.warehouse /\ stored'.memo = stored.memo
        /\ stored'.overrides = Begin!Cleared("ai", r)
    BY <1>1, <2>2 DEF SetupTypes
  <2>7. Settled(run'.pc)
    BY <2>1, <2>5, NothingIsSettled DEF Ends, GoesOn, Begin!Idle
  <2>8. Vouching
    BY <1>1, <2>2 DEF Vouching, VouchInv
  <2>9. /\ DOMAIN stored'.overrides = Begin!OVERRIDABLE_STEPS /\ DOMAIN stored'.memo = Begin!Scopes
        /\ \A s \in Begin!OVERRIDABLE_STEPS : stored'.overrides[s] = None \/ stored'.overrides[s] \in vouched'.confirmed
        /\ \A s \in Begin!Scopes : stored'.memo[s] = None \/ stored'.memo[s] \in vouched'.verified
    BY <1>1, <2>1, <2>2, <2>6, ClearedOverrides DEF SetupTypes, VouchInv
  <2>10. QED
    BY <2>1, <2>2, <2>5, <2>6, <2>7, <2>8, <2>9, QuietSteps
<1>4. QED
  BY <1>2, <1>3

(* READY is published at the end of a walk that came through. *)
LEMMA SharingStepKeeps ==
  ASSUME Begin!SetupAssumption, SetupInv, NEW r \in {Begin!_passed, Begin!Warning(TRUE, FALSE), Begin!Overridable(FALSE)},
         Begin!check_app_sharing(r)
  PROVE  SetupInv'
PROOF
<1> DEFINE a == Begin!_apply_override("app_sharing", r)
<1>1. Settled(run.pc) /\ SetupTypes /\ VouchInv /\ run.pc = "app_sharing" /\ run.pc \in Walks /\ run.pc \in Bound
      /\ "app_sharing" \in Begin!OVERRIDABLE_STEPS
  BY DEF SetupInv, WalkInv, Begin!check_app_sharing, Begin!OVERRIDABLE_STEPS, Walks, Connected, Bound, Locked, HasJob, Migrated, Completed, Active
<1>2. /\ stored' = [stored EXCEPT !.overrides = Begin!Cleared("app_sharing", r)]
      /\ report' = [state |-> IF a.state \in Begin!Blocking THEN "setup_required" ELSE "ready", shown |-> Begin!Shown("app_sharing", a)]
      /\ run' = Begin!Idle /\ UNCHANGED <<deployed, vouched, world, process>>
  BY DEF Begin!check_app_sharing, Begin!Stay
<1>3. process.bound \in Begin!Config
  BY <1>1, ResolvedConfigs DEF Settled
<1>4. r.state # "overridden"
  BY DEF Begin!_passed, Begin!Warning, Begin!Overridable
<1>5. a.state = "overridden" => Begin!Subject("app_sharing", process.bound) \in vouched.confirmed
  BY <1>1, <1>3, <1>4, OverridesWereConfirmed
<1>6. run.shown \in ShownSet
  BY <1>1 DEF SetupTypes, RunRecord
<1>7. report'.shown.overridden \subseteq vouched.confirmed /\ report'.shown.trusted \subseteq vouched.verified
  <2> HIDE DEF a
  <2>1. report'.shown = Begin!Shown("app_sharing", a)
    BY <1>2
  <2>2. QED
    BY <1>5, <1>6, <2>1 DEF Begin!Shown, ShownSet
<1>8. run'.pc = "idle"
  BY <1>2 DEF Begin!Idle
<1>9. /\ DOMAIN stored' = DOMAIN stored /\ stored'.choices = stored.choices /\ stored'.locked = stored.locked
      /\ stored'.completed = stored.completed /\ stored'.warehouse = stored.warehouse /\ stored'.memo = stored.memo
      /\ stored'.overrides = Begin!Cleared("app_sharing", r)
  BY <1>1, <1>2 DEF SetupTypes
<1>10. /\ DOMAIN stored'.overrides = Begin!OVERRIDABLE_STEPS
       /\ \A s \in Begin!OVERRIDABLE_STEPS : stored'.overrides[s] = None \/ stored'.overrides[s] \in vouched'.confirmed
  BY <1>1, <1>2, <1>9, ClearedOverrides
<1>11. SetupTypes'
  BY <1>1, <1>2, <1>8, <1>9, <1>10 DEF SetupTypes, Saves, Walks, Connected, Bound, Locked, HasJob, Migrated, Completed, Active
<1>12. VouchInv'
  BY <1>1, <1>2, <1>7, <1>9, <1>10 DEF VouchInv, Begin!VouchedForThis
<1>13. Begin!Resolved' = Begin!Resolved
  BY <1>2, <1>9, ResolvedIsKept
<1>14. WalkInv'
  BY <1>2, <1>8 DEF SetupInv, WalkInv, Settled, Saves, Walks, Connected, Bound, Locked, HasJob, Migrated, Completed, Active
<1>15. Begin!LockNamesTheStorage'
  BY <1>2, <1>9, <1>13 DEF SetupInv, Begin!LockNamesTheStorage
<1>16. Earned'
  BY <1>1, <1>2, <1>9, <1>13 DEF SetupInv, WalkInv, Earned, Settled, Walks, Connected, Bound, Locked, HasJob, Migrated, Completed, Active
<1>17. MigrateInv' /\ OneJob'
  BY <1>2, <1>8 DEF SetupInv, MigrateInv, OneJob
<1>18. QED
  BY <1>11, <1>12, <1>14, <1>15, <1>16, <1>17 DEF SetupInv

(* The end of the migrations, and activation. *)
LEMMA CompletionKeeps ==
  ASSUME Begin!SetupAssumption, SetupInv, NEW fails \in BOOLEAN, Begin!record_setup_completion(fails)
  PROVE  SetupInv'
PROOF
<1>1. /\ run.pc \in Walks /\ Settled(run.pc) /\ "migrations" \in Begin!Steps /\ "activation" \in Walks \ {"migrate"} /\ SetupTypes
      /\ run.pc = "completion"
  BY DEF Begin!record_setup_completion, SetupInv, WalkInv, Begin!Steps, Saves, Walks, Connected, Bound, Locked, HasJob, Migrated, Completed, Active
<1>2. UNCHANGED <<deployed, vouched, process, world>> /\ stored' = [stored EXCEPT !.completed = stored.completed \/ ~fails]
  BY DEF Begin!record_setup_completion, Begin!Stay
<1>3. /\ DOMAIN stored' = DOMAIN stored /\ stored'.choices = stored.choices /\ stored'.overrides = stored.overrides
      /\ stored'.memo = stored.memo /\ stored'.warehouse = stored.warehouse /\ stored'.locked = stored.locked
      /\ stored'.completed = (stored.completed \/ ~fails)
  BY <1>1, <1>2 DEF SetupTypes
<1>4. Ends \/ (GoesOn("activation") /\ ~fails)
  <2>1. CASE fails
    <3>1. Begin!_record("migrations", Begin!_failed, "activation") /\ Begin!_failed.state = "failed" /\ "failed" \in Begin!Blocking
      BY <2>1 DEF Begin!record_setup_completion, Begin!_failed, Begin!Blocking
    <3>2. QED
      BY <1>1, <3>1, StepsAreRecorded
  <2>2. CASE ~fails
    <3>1. run' = [run EXCEPT !.pc = "activation"] /\ UNCHANGED report
      BY <2>2 DEF Begin!record_setup_completion
    <3>2. QED
      BY <1>1, <2>2, <3>1, StepsGoOn
  <2>3. QED
    BY <2>1, <2>2
<1>5. /\ SetupTypes' /\ VouchInv' /\ Begin!Resolved' = Begin!Resolved
      /\ run'.pc \in {"idle", "activation"} /\ run'.pc # "migrate"
      /\ report'.state = "ready" => report.state = "ready"
  BY <1>1, <1>2, <1>3, <1>4, WalkStepsKeep DEF SetupTypes
<1>6. run'.pc = "activation" => ~fails
  BY <1>4 DEF Ends, Begin!Idle
<1>7. WalkInv'
  BY <1>1, <1>2, <1>3, <1>5, <1>6 DEF SetupInv, WalkInv, Settled, Saves, Walks, Connected, Bound, Locked, HasJob, Migrated, Completed, Active
<1>8. Begin!LockNamesTheStorage' /\ Earned'
  BY <1>2, <1>3, <1>5 DEF SetupInv, Begin!LockNamesTheStorage, Earned
<1>9. MigrateInv' /\ OneJob'
  BY <1>2, <1>5 DEF SetupInv, MigrateInv, OneJob
<1>10. QED
  BY <1>5, <1>7, <1>8, <1>9 DEF SetupInv

LEMMA ActivationKeeps ==
  ASSUME Begin!SetupAssumption, SetupInv, NEW fails \in BOOLEAN, Begin!activate_studio(fails)
  PROVE  SetupInv'
PROOF
<1>1. /\ run.pc \in Walks /\ Settled(run.pc) /\ "activation" \in Begin!Steps /\ "access" \in Walks \ {"migrate"} /\ SetupTypes
      /\ run.pc = "activation"
  BY DEF Begin!activate_studio, SetupInv, WalkInv, Begin!Steps, Saves, Walks, Connected, Bound, Locked, HasJob, Migrated, Completed, Active
<1>2. UNCHANGED <<deployed, vouched, stored, world>> /\ (fails => ~process.context.active)
      /\ process' = [process EXCEPT !.context.opened = TRUE, !.context.active = ~fails]
  BY DEF Begin!activate_studio, Begin!Stay
<1>3. process \in Processes
  BY <1>1 DEF SetupTypes
<1>4. /\ process' \in Processes /\ process'.bound = process.bound /\ process'.job = process.job
      /\ process'.context.config = process.context.config /\ process'.context.active = ~fails
  BY <1>2, <1>3 DEF Processes
<1>5. Ends \/ (GoesOn("access") /\ ~fails)
  <2>1. /\ Begin!_passed.state = "passed" /\ Begin!_failed.state = "failed" /\ "passed" \notin Begin!Blocking /\ "failed" \in Begin!Blocking
    BY DEF Begin!_passed, Begin!_failed, Begin!Blocking
  <2>2. CASE fails
    <3>1. Begin!_record("activation", Begin!_failed, "access")
      BY <2>2 DEF Begin!activate_studio
    <3>2. QED
      BY <1>1, <2>1, <3>1, StepsAreRecorded
  <2>3. CASE ~fails
    <3>1. Begin!_record("activation", Begin!_passed, "access")
      BY <2>3 DEF Begin!activate_studio
    <3>2. QED
      BY <1>1, <2>1, <2>3, <3>1, StepsAreRecorded
  <2>4. QED
    BY <2>2, <2>3
<1>6. /\ SetupTypes' /\ VouchInv' /\ Begin!Resolved' = Begin!Resolved
      /\ run'.pc \in {"idle", "access"} /\ run'.pc # "migrate"
      /\ report'.state = "ready" => report.state = "ready"
  BY <1>1, <1>2, <1>4, <1>5, WalkStepsKeep DEF SetupTypes
<1>7. run'.pc = "access" => ~fails
  BY <1>5 DEF Ends, Begin!Idle
<1>8. WalkInv'
  BY <1>1, <1>2, <1>4, <1>6, <1>7 DEF SetupInv, WalkInv, Settled, Saves, Walks, Connected, Bound, Locked, HasJob, Migrated, Completed, Active
<1>9. Begin!LockNamesTheStorage'
  BY <1>2, <1>4, <1>6 DEF SetupInv, Begin!LockNamesTheStorage
<1>10. Earned'
  BY <1>2, <1>4, <1>6 DEF SetupInv, Earned
<1>11. MigrateInv' /\ OneJob'
  BY <1>2, <1>6 DEF SetupInv, MigrateInv, OneJob
<1>12. QED
  BY <1>6, <1>8, <1>9, <1>10, <1>11 DEF SetupInv

-----------------------------------------------------------------------------
(* Setup: the migrations of Delta *)

(* Pairs put together. *)
LEMMA PairsJoined ==
  /\ \A x, y : <<x>> \o <<y>> = <<x, y>>
  /\ \A a, b, c, d : <<a, b>> \o <<c, d>> = <<a, b, c, d>>
PROOF
<1>1. ASSUME NEW x, NEW y PROVE <<x>> \o <<y>> = <<x, y>>
  <2>1. <<x>> \in Seq({x, y}) /\ <<y>> \in Seq({x, y}) /\ <<x, y>> \in Seq({x, y})
    OBVIOUS
  <2>2. Len(<<x>>) = 1 /\ Len(<<y>>) = 1 /\ Len(<<x, y>>) = 2 /\ <<x>>[1] = x /\ <<y>>[1] = y /\ <<x, y>>[1] = x /\ <<x, y>>[2] = y
    OBVIOUS
  <2>3. /\ <<x>> \o <<y>> \in Seq({x, y}) /\ Len(<<x>> \o <<y>>) = 2
        /\ (<<x>> \o <<y>>)[1] = x /\ (<<x>> \o <<y>>)[2] = y
    BY <2>1, <2>2, ConcatProperties
  <2>4. \A i \in 1 .. 2 : (<<x>> \o <<y>>)[i] = <<x, y>>[i]
    <3>1. \A i \in 1 .. 2 : i = 1 \/ i = 2
      OBVIOUS
    <3>2. QED
      BY <2>2, <2>3, <3>1, Zenon
  <2>5. Len(<<x>> \o <<y>>) = Len(<<x, y>>) /\ \A i \in 1 .. Len(<<x>> \o <<y>>) : (<<x>> \o <<y>>)[i] = <<x, y>>[i]
    BY <2>2, <2>3, <2>4, Zenon
  <2>6. QED
    BY <2>1, <2>3, <2>5, SeqEqual, Zenon
<1>2. ASSUME NEW a, NEW b, NEW c, NEW d PROVE <<a, b>> \o <<c, d>> = <<a, b, c, d>>
  <2> DEFINE S == {a, b, c, d}
  <2>1. <<a, b>> \in Seq(S) /\ <<c, d>> \in Seq(S) /\ <<a, b, c, d>> \in Seq(S)
    OBVIOUS
  <2>2. /\ Len(<<a, b>>) = 2 /\ Len(<<c, d>>) = 2 /\ Len(<<a, b, c, d>>) = 4
        /\ <<a, b>>[1] = a /\ <<a, b>>[2] = b /\ <<c, d>>[1] = c /\ <<c, d>>[2] = d
        /\ <<a, b, c, d>>[1] = a /\ <<a, b, c, d>>[2] = b /\ <<a, b, c, d>>[3] = c /\ <<a, b, c, d>>[4] = d
    OBVIOUS
  <2> HIDE DEF S
  <2>3. /\ <<a, b>> \o <<c, d>> \in Seq(S) /\ Len(<<a, b>> \o <<c, d>>) = 4
        /\ (<<a, b>> \o <<c, d>>)[1] = a /\ (<<a, b>> \o <<c, d>>)[2] = b /\ (<<a, b>> \o <<c, d>>)[3] = c /\ (<<a, b>> \o <<c, d>>)[4] = d
    BY <2>1, <2>2, ConcatProperties
  <2>4. \A i \in 1 .. 4 : (<<a, b>> \o <<c, d>>)[i] = <<a, b, c, d>>[i]
    <3>1. \A i \in 1 .. 4 : i = 1 \/ i = 2 \/ i = 3 \/ i = 4
      OBVIOUS
    <3>2. QED
      BY <2>2, <2>3, <3>1, Zenon
  <2>5. Len(<<a, b>> \o <<c, d>>) = Len(<<a, b, c, d>>) /\ \A i \in 1 .. Len(<<a, b>> \o <<c, d>>) : (<<a, b>> \o <<c, d>>)[i] = <<a, b, c, d>>[i]
    BY <2>2, <2>3, <2>4, Zenon
  <2>6. QED
    BY <2>1, <2>3, <2>5, SeqEqual, Zenon
<1>3. QED
  BY <1>1, <1>2

(* Two versions of one statement each. *)
LEMMA StatementsCounted ==
  Len(Begin!Statements) = 2 /\ \A v \in {1, 2} : Len(Begin!Statements[v]) = 1
PROOF
<1>1. \A x, y : Len(<<x, y>>) = 2 /\ <<x, y>>[1] = x /\ <<x, y>>[2] = y
  OBVIOUS
<1>2. \A x : Len(<<x>>) = 1
  OBVIOUS
<1>3. Len(Begin!Statements) = 2 /\ Begin!Statements[1] = <<"create runs">> /\ Begin!Statements[2] = <<"create configs">>
  BY <1>1, Zenon DEF Begin!Statements
<1>4. QED
  BY <1>2, <1>3

(* The cardinality Setup uses is that of FiniteSets. *)
LEMMA JobsCounted == Begin!Cardinality(world.jobs) = Cardinality(world.jobs)
  BY Zenon DEF Begin!Cardinality, Cardinality

(* A version that is not recorded has its statement and its row to do. *)
LEMMA VersionsToDo ==
  \A v \in {1, 2} : [i \in 1 .. Len(Begin!Statements[v]) |-> <<v, i>>] \o << <<v, 0>> >> = << <<v, 1>>, <<v, 0>> >>
PROOF
<1> SUFFICES ASSUME NEW v \in {1, 2}
             PROVE  [i \in 1 .. Len(Begin!Statements[v]) |-> <<v, i>>] \o << <<v, 0>> >> = << <<v, 1>>, <<v, 0>> >>
  OBVIOUS
<1>1. Len(Begin!Statements[v]) = 1
  BY StatementsCounted
<1>2. [i \in 1 .. 1 |-> <<v, i>>] = << <<v, 1>> >>
  <2>1. DOMAIN [i \in 1 .. 1 |-> <<v, i>>] = 1 .. 1 /\ DOMAIN << <<v, 1>> >> = 1 .. 1
    OBVIOUS
  <2>2. \A i \in 1 .. 1 : [k \in 1 .. 1 |-> <<v, k>>][i] = << <<v, 1>> >>[i]
    OBVIOUS
  <2>3. [i \in 1 .. 1 |-> <<v, i>>] \in Seq({v} \X {1}) /\ << <<v, 1>> >> \in Seq({v} \X {1})
    OBVIOUS
  <2>4. Len([i \in 1 .. 1 |-> <<v, i>>]) = 1 /\ Len(<< <<v, 1>> >>) = 1
    OBVIOUS
  <2>5. QED
    BY <2>2, <2>3, <2>4, SeqEqual
<1>3. << <<v, 1>> >> \o << <<v, 0>> >> = << <<v, 1>>, <<v, 0>> >>
  BY PairsJoined, Zenon
<1>4. QED
  BY <1>1, <1>2, <1>3

LEMMA PlansCoverTheRest ==
  ASSUME NEW recorded \in SUBSET {1, 2}, NEW done
  PROVE  Ahead(Begin!Unapplied(recorded), done, recorded) /\ Begin!Unapplied(recorded) \in Seq({1, 2} \X {0, 1})
PROOF
<1> DEFINE Of(v) == IF v \in recorded THEN <<>> ELSE << <<v, 1>>, <<v, 0>> >>
<1>1. Begin!Unapplied(recorded) = Of(1) \o Of(2)
  BY VersionsToDo DEF Begin!Unapplied
<1>2. CASE 1 \in recorded /\ 2 \in recorded
  <2>1. Of(1) = <<>> /\ Of(2) = <<>> /\ recorded = {1, 2}
    BY <1>2
  <2>2. <<>> \o <<>> = <<>> /\ <<>> \in Seq({1, 2} \X {0, 1})
    OBVIOUS
  <2>3. QED
    BY <1>1, <2>1, <2>2 DEF Ahead
<1>3. CASE 1 \in recorded /\ 2 \notin recorded
  <2>1. Of(1) = <<>> /\ Of(2) = << <<2, 1>>, <<2, 0>> >>
    BY <1>3
  <2>2. <<>> \o << <<2, 1>>, <<2, 0>> >> = << <<2, 1>>, <<2, 0>> >> /\ << <<2, 1>>, <<2, 0>> >> \in Seq({1, 2} \X {0, 1})
    OBVIOUS
  <2>3. QED
    BY <1>1, <1>3, <2>1, <2>2 DEF Ahead
<1>4. CASE 1 \notin recorded /\ 2 \in recorded
  <2>1. Of(1) = << <<1, 1>>, <<1, 0>> >> /\ Of(2) = <<>>
    BY <1>4
  <2>2. << <<1, 1>>, <<1, 0>> >> \o <<>> = << <<1, 1>>, <<1, 0>> >> /\ << <<1, 1>>, <<1, 0>> >> \in Seq({1, 2} \X {0, 1})
    OBVIOUS
  <2>3. QED
    BY <1>1, <1>4, <2>1, <2>2 DEF Ahead
<1>5. CASE 1 \notin recorded /\ 2 \notin recorded
  <2>1. Of(1) = << <<1, 1>>, <<1, 0>> >> /\ Of(2) = << <<2, 1>>, <<2, 0>> >>
    BY <1>5
  <2>2. << <<1, 1>>, <<1, 0>> >> \o << <<2, 1>>, <<2, 0>> >> = << <<1, 1>>, <<1, 0>>, <<2, 1>>, <<2, 0>> >>
    <3> DEFINE a == <<1, 1>>
               b == <<1, 0>>
               c == <<2, 1>>
               d == <<2, 0>>
    <3> HIDE DEF a, b, c, d
    <3>1. <<a, b>> \o <<c, d>> = <<a, b, c, d>>
      BY PairsJoined, Zenon
    <3>2. QED
      BY <3>1, Zenon DEF a, b, c, d
  <2>3. << <<1, 1>>, <<1, 0>>, <<2, 1>>, <<2, 0>> >> \in Seq({1, 2} \X {0, 1})
    <3>1. \A S : \A a, b, c, d \in S : <<a, b, c, d>> \in Seq(S)
      OBVIOUS
    <3>2. <<1, 1>> \in {1, 2} \X {0, 1} /\ <<1, 0>> \in {1, 2} \X {0, 1} /\ <<2, 1>> \in {1, 2} \X {0, 1} /\ <<2, 0>> \in {1, 2} \X {0, 1}
      OBVIOUS
    <3>3. QED
      BY <3>1, <3>2, Zenon
  <2>4. QED
    BY <1>1, <2>1, <2>2, <2>3, Zenon DEF Ahead
<1>6. QED
  BY <1>2, <1>3, <1>4, <1>5

(* Doing the next of them leaves the rest to do. *)
LEMMA NextOfThePlan ==
  ASSUME NEW todo, NEW done, NEW recorded \in SUBSET {1, 2}, Ahead(todo, done, recorded), todo # <<>>
  PROVE  /\ Head(todo) \in {1, 2} \X {0, 1}
         /\ Head(todo)[2] = 0 => <<Head(todo)[1], 1>> \in done /\ Ahead(Tail(todo), done, recorded \cup {Head(todo)[1]})
         /\ Head(todo)[2] # 0 => Head(todo) \in {1, 2} \X {1} /\ Ahead(Tail(todo), done \cup {Head(todo)}, recorded)
PROOF
<1>1. CASE todo = << <<2, 0>> >> /\ 1 \in recorded /\ <<2, 1>> \in done
  <2>1. Head(todo) = <<2, 0>> /\ Tail(todo) = <<>>
    BY <1>1
  <2>2. recorded \cup {2} = {1, 2}
    BY <1>1
  <2>3. QED
    BY <1>1, <2>1, <2>2 DEF Ahead
<1>2. CASE todo = << <<2, 1>>, <<2, 0>> >> /\ 1 \in recorded
  <2>1. Head(todo) = <<2, 1>> /\ Tail(todo) = << <<2, 0>> >>
    BY <1>2
  <2>2. QED
    BY <1>2, <2>1 DEF Ahead
<1>3. CASE todo = << <<1, 0>> >> /\ 2 \in recorded /\ <<1, 1>> \in done
  <2>1. Head(todo) = <<1, 0>> /\ Tail(todo) = <<>>
    BY <1>3
  <2>2. recorded \cup {1} = {1, 2}
    BY <1>3
  <2>3. QED
    BY <1>3, <2>1, <2>2 DEF Ahead
<1>4. CASE todo = << <<1, 1>>, <<1, 0>> >> /\ 2 \in recorded
  <2>1. Head(todo) = <<1, 1>> /\ Tail(todo) = << <<1, 0>> >>
    BY <1>4
  <2>2. QED
    BY <1>4, <2>1 DEF Ahead
<1>5. CASE todo = << <<1, 0>>, <<2, 1>>, <<2, 0>> >> /\ <<1, 1>> \in done
  <2>1. Head(todo) = <<1, 0>> /\ Tail(todo) = << <<2, 1>>, <<2, 0>> >>
    BY <1>5
  <2>2. QED
    BY <1>5, <2>1 DEF Ahead
<1>6. CASE todo = << <<1, 1>>, <<1, 0>>, <<2, 1>>, <<2, 0>> >>
  <2>1. Head(todo) = <<1, 1>> /\ Tail(todo) = << <<1, 0>>, <<2, 1>>, <<2, 0>> >>
    BY <1>6
  <2>2. QED
    BY <1>6, <2>1 DEF Ahead
<1>7. QED
  BY <1>1, <1>2, <1>3, <1>4, <1>5, <1>6 DEF Ahead

LEMMA PlanStepKeeps ==
  ASSUME Begin!SetupAssumption, SetupInv, Begin!PlanMigrations
  PROVE  SetupInv'
PROOF
<1> DEFINE l == Begin!Place(process.bound)
           p == world.delta[l]
<1>1. Settled(run.pc) /\ SetupTypes /\ run.pc = "plan" /\ run.pc \in Walks /\ run.pc \in Bound /\ run \in RunRecord /\ "migrate" \in Walks
  BY DEF SetupInv, SetupTypes, WalkInv, Begin!PlanMigrations, Walks, Connected, Bound, Locked, HasJob, Migrated, Completed, Active
<1>2. l \in Begin!Location
  BY <1>1, ResolvedConfigs DEF Settled
<1>3. Begin!Versions = {1, 2}
  BY DEF Begin!Versions, Begin!Statements
<1>4. p \in Progress /\ p.recorded \in SUBSET {1, 2}
  BY <1>1, <1>2, <1>3 DEF SetupTypes, Progress
<1>5. Ahead(Begin!Unapplied(p.recorded), p.done, p.recorded) /\ Begin!Unapplied(p.recorded) \in Seq({1, 2} \X {0, 1})
  BY <1>4, PlansCoverTheRest
<1>6. /\ run' = [run EXCEPT !.pc = "migrate", !.todo = Begin!Unapplied(p.recorded)]
      /\ UNCHANGED <<deployed, stored, world, process, report, vouched>>
  BY DEF Begin!PlanMigrations, Begin!StayPut
<1>7. run' \in RunRecord /\ run'.pc = "migrate" /\ run'.todo = Begin!Unapplied(p.recorded)
  BY <1>1, <1>3, <1>5, <1>6 DEF RunRecord
<1>8. (run \in RunRecord)'
  BY <1>6, <1>7 DEF RunRecord, ShownSet
<1>9. SetupTypes'
  BY <1>1, <1>6, <1>7, <1>8 DEF SetupTypes, Saves, Walks, Connected, Bound, Locked, HasJob, Migrated, Completed, Active
<1>10. VouchInv'
  BY <1>6 DEF SetupInv, VouchInv, Begin!VouchedForThis
<1>11. Begin!Resolved' = Begin!Resolved
  BY <1>6, ResolvedIsKept
<1>12. WalkInv'
  BY <1>1, <1>6, <1>7, <1>11 DEF SetupInv, WalkInv, Settled, Saves, Walks, Connected, Bound, Locked, HasJob, Migrated, Completed, Active
<1>13. Begin!LockNamesTheStorage' /\ Earned' /\ OneJob'
  BY <1>6, <1>11 DEF SetupInv, Begin!LockNamesTheStorage, Earned, OneJob
<1>14. MigrateInv'
  BY <1>5, <1>6, <1>7 DEF SetupInv, MigrateInv
<1>15. QED
  BY <1>9, <1>10, <1>12, <1>13, <1>14 DEF SetupInv

LEMMA ApplyStepKeeps ==
  ASSUME Begin!SetupAssumption, SetupInv, NEW fails \in BOOLEAN, Begin!_apply(fails)
  PROVE  SetupInv'
PROOF
<1> DEFINE l == Begin!Place(process.bound)
<1>1. Settled(run.pc) /\ SetupTypes /\ run.pc = "migrate" /\ run.pc \in Walks /\ run.pc \in Bound /\ run.pc \in Locked /\ run \in RunRecord
  BY DEF SetupInv, SetupTypes, WalkInv, Begin!_apply, Walks, Connected, Bound, Locked, HasJob, Migrated, Completed, Active
<1>2. l \in Begin!Location
  BY <1>1, ResolvedConfigs DEF Settled
<1>3. Begin!Versions = {1, 2}
  BY DEF Begin!Versions, Begin!Statements
<1> DEFINE done == world.delta[l].done
           recorded == world.delta[l].recorded
<1>4. world.delta[l] \in Progress /\ recorded \in SUBSET {1, 2} /\ done \in SUBSET ({1, 2} \X {1})
  BY <1>1, <1>2, <1>3 DEF SetupTypes, Progress
<1>5. Ahead(run.todo, done, recorded)
  BY <1>1 DEF SetupInv, MigrateInv
<1>6. UNCHANGED <<deployed, stored, vouched, process>>
  BY DEF Begin!_apply, Begin!Stay
<1>7. "migrations" \in Begin!Steps /\ "outputs" \in Walks \ {"migrate"} /\ Begin!_passed.state \in States /\ Begin!_failed.state \in States
      /\ Begin!_failed.state \in Begin!Blocking
  BY DEF Begin!Steps, Begin!_passed, Begin!_failed, States, Begin!Blocking, Walks, Connected, Bound, Locked, HasJob, Migrated, Completed, Active
<1>8. CASE run.todo = <<>>
  <2>1. recorded = Begin!Versions
    BY <1>3, <1>5, <1>8 DEF Ahead
  <2>2. Settled("outputs")
    BY <1>1, <2>1 DEF Settled, Saves, Walks, Connected, Bound, Locked, HasJob, Migrated, Completed, Active
  <2>3. world' = world /\ Begin!_record("migrations", Begin!_passed, "outputs")
    BY <1>8 DEF Begin!_apply
  <2>4. QED
    BY <1>1, <1>6, <1>7, <2>2, <2>3, RecordedStepsKeep
<1>9. CASE run.todo # <<>> /\ fails
  <2>1. world' = world /\ Begin!_record("migrations", Begin!_failed, "outputs")
    BY <1>9 DEF Begin!_apply
  <2>2. QED
    BY <1>1, <1>6, <1>7, <2>1, RecordedStepsKeep
<1>10. CASE run.todo # <<>> /\ ~fails
  <2> DEFINE h == Head(run.todo)
  <2>1. /\ h \in {1, 2} \X {0, 1}
        /\ h[2] = 0 => <<h[1], 1>> \in done /\ Ahead(Tail(run.todo), done, recorded \cup {h[1]})
        /\ h[2] # 0 => h \in {1, 2} \X {1} /\ Ahead(Tail(run.todo), done \cup {h}, recorded)
    BY <1>4, <1>5, <1>10, NextOfThePlan
  <2>2. /\ world' = IF h[2] = 0 THEN [world EXCEPT !.delta[l].recorded = @ \cup {h[1]}] ELSE [world EXCEPT !.delta[l].done = @ \cup {h}]
        /\ run' = [run EXCEPT !.todo = Tail(@)] /\ UNCHANGED report
    BY <1>10 DEF Begin!_apply
  <2>3. PICK more, row : /\ more \in SUBSET ({1, 2} \X {1}) /\ row \in SUBSET {1, 2} /\ done \subseteq more /\ recorded \subseteq row
                         /\ \A v \in row : v \in recorded \/ <<v, 1>> \in done
                         /\ Ahead(Tail(run.todo), more, row)
                         /\ DOMAIN world' = DOMAIN world /\ world'.schemas = world.schemas /\ world'.postgres = world.postgres
                         /\ world'.jobs = world.jobs /\ world'.runAs = world.runAs
                         /\ world'.delta = [world.delta EXCEPT ![l] = [done |-> more, recorded |-> row]]
    <3>1. DOMAIN world = {"schemas", "delta", "postgres", "jobs", "runAs"} /\ world.delta \in [Begin!Location -> Progress]
      BY <1>1 DEF SetupTypes
    <3>2. CASE h[2] = 0
      <4>1. world' = [world EXCEPT !.delta[l].recorded = @ \cup {h[1]}]
        BY <2>2, <3>2
      <4>2. [world.delta[l] EXCEPT !.recorded = @ \cup {h[1]}] = [done |-> done, recorded |-> recorded \cup {h[1]}]
        BY <1>4 DEF Progress
      <4>3. world'.delta = [world.delta EXCEPT ![l] = [done |-> done, recorded |-> recorded \cup {h[1]}]]
        BY <3>1, <4>1, <4>2
      <4>4. DOMAIN world' = DOMAIN world /\ world'.schemas = world.schemas /\ world'.postgres = world.postgres
            /\ world'.jobs = world.jobs /\ world'.runAs = world.runAs
        BY <3>1, <4>1
      <4>5. h[1] \in {1, 2}
        BY <2>1
      <4>6. recorded \cup {h[1]} \in SUBSET {1, 2} /\ \A v \in recorded \cup {h[1]} : v \in recorded \/ <<v, 1>> \in done
        BY <1>4, <2>1, <3>2, <4>5
      <4> HIDE DEF h, done, recorded
      <4>7. QED
        BY <1>4, <2>1, <3>2, <4>3, <4>4, <4>6
    <3>3. CASE h[2] # 0
      <4>1. world' = [world EXCEPT !.delta[l].done = @ \cup {h}]
        BY <2>2, <3>3
      <4>2. [world.delta[l] EXCEPT !.done = @ \cup {h}] = [done |-> done \cup {h}, recorded |-> recorded]
        <5>1. \A p \in Progress : \A x : [p EXCEPT !.done = @ \cup {x}] = [done |-> p.done \cup {x}, recorded |-> p.recorded]
          BY DEF Progress
        <5>2. QED
          BY <1>4, <5>1, Zenon
      <4>3. world'.delta = [world.delta EXCEPT ![l] = [done |-> done \cup {h}, recorded |-> recorded]]
        BY <3>1, <4>1, <4>2
      <4>4. DOMAIN world' = DOMAIN world /\ world'.schemas = world.schemas /\ world'.postgres = world.postgres
            /\ world'.jobs = world.jobs /\ world'.runAs = world.runAs
        BY <3>1, <4>1
      <4>5. h \in {1, 2} \X {1} /\ Ahead(Tail(run.todo), done \cup {h}, recorded)
        BY <2>1, <3>3
      <4> DEFINE Pairs == {1, 2} \X {1}
      <4>6. done \cup {h} \in SUBSET Pairs /\ done \subseteq done \cup {h}
        <5> HIDE DEF h, done, Pairs
        <5>1. QED
          BY <1>4, <4>5 DEF Pairs
      <4>7. recorded \subseteq recorded /\ \A v \in recorded : v \in recorded \/ <<v, 1>> \in done
        OBVIOUS
      <4> HIDE DEF h, done, recorded
      <4>8. QED
        BY <1>4, <4>3, <4>4, <4>5, <4>6, <4>7, Zenon DEF Pairs
    <3>4. QED
      BY <3>2, <3>3
  <2>4. [done |-> more, recorded |-> row] \in Progress
    BY <1>3, <2>3 DEF Progress
  <2>5. world'.delta \in [Begin!Location -> Progress] /\ world'.delta[l] = [done |-> more, recorded |-> row]
        /\ \A k \in Begin!Location : k # l => world'.delta[k] = world.delta[k]
    BY <1>1, <1>2, <2>3, <2>4 DEF SetupTypes
  <2>6. run' \in RunRecord /\ run'.pc = "migrate" /\ run'.todo = Tail(run.todo)
    <3> DEFINE Items == Begin!Versions \X {0, 1}
    <3>1. run.todo \in Seq(Items)
      BY <1>1 DEF RunRecord
    <3> HIDE DEF Items
    <3>2. Tail(run.todo) \in Seq(Items)
      BY <1>10, <3>1, HeadTailProperties
    <3>3. run'.todo = Tail(run.todo) /\ run'.pc = "migrate" /\ run' = [run EXCEPT !.todo = Tail(run.todo)]
      BY <1>1, <2>2 DEF RunRecord
    <3>4. QED
      BY <1>1, <3>2, <3>3 DEF RunRecord, Items
  <2>7. (run \in RunRecord)'
    BY <1>6, <2>6 DEF RunRecord, ShownSet
  <2>8. SetupTypes'
    BY <1>1, <1>6, <2>2, <2>3, <2>5, <2>6, <2>7 DEF SetupTypes, Saves, Walks, Connected, Bound, Locked, HasJob, Migrated, Completed, Active
  <2>9. VouchInv'
    BY <1>6, <2>2 DEF SetupInv, VouchInv, Begin!VouchedForThis
  <2>10. Begin!Resolved' = Begin!Resolved
    BY <1>6, ResolvedIsKept
  <2>11. WalkInv'
    BY <1>1, <1>6, <2>3, <2>6, <2>10 DEF SetupInv, WalkInv, Settled, Saves, Walks, Connected, Bound, Locked, HasJob, Migrated, Completed, Active
  <2>12. Begin!LockNamesTheStorage' /\ OneJob'
    BY <1>6, <2>3, <2>10 DEF SetupInv, Begin!LockNamesTheStorage, OneJob
  <2>13. Earned'
    <3>1. Begin!Resolved = process.bound
      BY <1>1 DEF Settled
    <3>2. row = {1, 2} \/ recorded # {1, 2}
      BY <2>3
    <3>3. report.state = "ready" => recorded = {1, 2}
      BY <1>3, <3>1 DEF SetupInv, Earned
    <3>4. (world.delta[Begin!Place(Begin!Resolved)])'.recorded = row
      BY <1>6, <2>5, <2>10, <3>1
    <3>5. QED
      BY <1>3, <1>6, <2>2, <2>3, <2>10, <3>2, <3>3, <3>4 DEF SetupInv, Earned
  <2>14. MigrateInv'
    <3>1. \A k \in Begin!Location : \A v \in world'.delta[k].recorded : <<v, 1>> \in world'.delta[k].done
      <4>1. SUFFICES ASSUME NEW k \in Begin!Location, NEW v \in world'.delta[k].recorded PROVE <<v, 1>> \in world'.delta[k].done
        OBVIOUS
      <4>2. \A w \in world.delta[k].recorded : <<w, 1>> \in world.delta[k].done
        BY DEF SetupInv, MigrateInv
      <4>3. CASE k = l
        <5>1. v \in row /\ world'.delta[k].done = more
          BY <2>5, <4>1, <4>3
        <5>2. \A w \in recorded : <<w, 1>> \in done
          BY <4>2, <4>3
        <5> HIDE DEF done, recorded
        <5>3. QED
          BY <2>3, <5>1, <5>2
      <4>4. CASE k # l
        BY <2>5, <4>2, <4>4
      <4>5. QED
        BY <4>3, <4>4
    <3>2. Ahead(run'.todo, world'.delta[Begin!Place(process'.bound)].done, world'.delta[Begin!Place(process'.bound)].recorded)
      BY <1>6, <2>3, <2>5, <2>6
    <3>3. QED
      BY <3>1, <3>2 DEF MigrateInv
  <2>15. QED
    BY <2>8, <2>9, <2>11, <2>12, <2>13, <2>14 DEF SetupInv
<1>11. QED
  BY <1>8, <1>9, <1>10

-----------------------------------------------------------------------------
(* Setup: between the walks *)

(* A walk begins with nothing settled and nothing shown. *)
LEMMA WalksBegin ==
  ASSUME NEW a \in BOOLEAN, NEW b \in BOOLEAN, VouchInv
  PROVE  /\ Begin!Walk(a, b) \in RunRecord /\ Begin!Walk(a, b).pc = "identity"
         /\ Settled("identity") /\ Settled("idle") /\ Begin!Idle.pc = "idle"
         /\ Begin!Blank.overridden = {} /\ Begin!Blank.trusted = {}
PROOF
<1>1. Begin!Blank \in ShownSet /\ Begin!Blank.overridden = {} /\ Begin!Blank.trusted = {}
  BY DEF Begin!Blank, ShownSet
<1>2. "identity" \in Walks /\ <<>> \in Seq(Begin!Versions \X {0, 1})
  BY DEF Walks
<1>3. Begin!Walk(a, b) \in RunRecord /\ Begin!Walk(a, b).pc = "identity"
  BY <1>1, <1>2 DEF Begin!Walk, RunRecord
<1>4. Settled("identity")
  BY DEF Settled, Saves, Connected, Bound, Locked, HasJob, Migrated, Completed, Active
<1>5. QED
  BY <1>1, <1>3, <1>4, NothingIsSettled DEF Begin!Idle

LEMMA StartsKeep ==
  ASSUME Begin!SetupAssumption, SetupInv, Begin!start_studio \/ Begin!reconcile \/ Begin!Crash
  PROVE  SetupInv'
PROOF
<1>1. SetupTypes /\ VouchInv
  BY DEF SetupInv
<1>2. UNCHANGED <<deployed, stored, world, vouched>>
  BY DEF Begin!start_studio, Begin!reconcile, Begin!Crash, Begin!StayPut
<1>3. PICK a \in BOOLEAN, b \in BOOLEAN : run' = Begin!Walk(a, b) \/ run' = Begin!Idle
  <2>1. (report.state # "ready") \in BOOLEAN /\ TRUE \in BOOLEAN /\ FALSE \in BOOLEAN
    OBVIOUS
  <2>2. QED
    BY <2>1 DEF Begin!start_studio, Begin!reconcile, Begin!Crash
<1>4. /\ run'.pc \in {"identity", "idle"} /\ (run'.pc \in Walks => run' \in RunRecord)
      /\ Settled("identity") /\ Settled("idle") /\ Begin!Blank.overridden = {} /\ Begin!Blank.trusted = {}
  BY <1>1, <1>3, WalksBegin DEF Begin!Idle, Walks, Connected, Bound, Locked, HasJob, Migrated, Completed, Active
<1>5. (run'.pc \in Walks => (run \in RunRecord)')
  BY <1>2, <1>4 DEF RunRecord, ShownSet
<1>6. \/ process' = process
      \/ \E u \in BOOLEAN : process' = [up |-> u, bound |-> None, context |-> [config |-> None, opened |-> FALSE, active |-> FALSE], job |-> None]
  BY DEF Begin!start_studio, Begin!reconcile, Begin!Crash, Begin!StayPut, Begin!Down, Begin!Closed
<1>7. /\ process' \in Processes /\ process'.bound \in {process.bound, None}
      /\ process'.bound # None => process' = process
  <2>1. process \in Processes /\ None \in ConfigOrNone /\ None \in JobOrNone
    BY <1>1 DEF SetupTypes, ConfigOrNone, JobOrNone
  <2>2. ASSUME NEW u \in BOOLEAN, process' = [up |-> u, bound |-> None, context |-> [config |-> None, opened |-> FALSE, active |-> FALSE], job |-> None]
        PROVE  process' \in Processes /\ process'.bound = None
    BY <2>1, <2>2 DEF Processes
  <2>3. QED
    BY <1>6, <2>1, <2>2
<1>8. /\ report'.shown \in {report.shown, Begin!Blank}
      /\ report'.state = "ready" => report.state = "ready" /\ process' = process
  <2>1. CASE Begin!start_studio
    <3>1. report' = Begin!Checking \/ report' = [state |-> "setup_required", shown |-> Begin!Blank]
      BY <2>1 DEF Begin!start_studio
    <3>2. Begin!Checking = [state |-> "checking", shown |-> Begin!Blank]
      BY DEF Begin!Checking
    <3>3. report'.shown = Begin!Blank /\ report'.state # "ready"
      BY <3>1, <3>2
    <3>4. QED
      BY <3>3
  <2>2. CASE Begin!reconcile
    BY <2>2 DEF Begin!reconcile, Begin!Checking, Begin!StayPut
  <2>3. CASE Begin!Crash
    BY <2>3 DEF Begin!Crash, Begin!Checking
  <2>4. QED
    BY <2>1, <2>2, <2>3
<1>9. SetupTypes'
  BY <1>1, <1>2, <1>4, <1>5, <1>7 DEF SetupTypes, Saves, Walks, Connected, Bound, Locked, HasJob, Migrated, Completed, Active
<1>10. VouchInv'
  BY <1>1, <1>2, <1>4, <1>8 DEF VouchInv, Begin!VouchedForThis
<1>11. Begin!Resolved' = Begin!Resolved
  BY <1>2, ResolvedIsKept
<1>12. WalkInv'
  BY <1>2, <1>4, <1>7 DEF SetupInv, WalkInv, Settled, Saves, Walks, Connected, Bound, Locked, HasJob, Migrated, Completed, Active
<1>13. Begin!LockNamesTheStorage'
  BY <1>2, <1>7, <1>11 DEF SetupInv, Begin!LockNamesTheStorage
<1>14. Earned'
  BY <1>2, <1>8, <1>11 DEF SetupInv, Earned
<1>15. MigrateInv' /\ OneJob'
  BY <1>2, <1>4 DEF SetupInv, MigrateInv, OneJob
<1>16. QED
  BY <1>9, <1>10, <1>12, <1>13, <1>14, <1>15 DEF SetupInv

(* Saving a configuration, one setting after the other. *)
LEMMA SavesKeep ==
  ASSUME Begin!SetupAssumption, SetupInv,
         (\E n \in Names : Begin!save_configuration(n)) \/ Begin!SaveNext \/ Begin!SaveFails
  PROVE  SetupInv'
PROOF
<1>1. SetupTypes /\ VouchInv /\ Settled(run.pc)
  BY DEF SetupInv, WalkInv
<1>2. UNCHANGED <<deployed, world, process, report, vouched>> /\ ~stored.locked
  BY <1>1 DEF Begin!save_configuration, Begin!SaveNext, Begin!SaveFails, Settled, Saves
<1>3. \/ stored' = stored
      \/ \E f \in Begin!Field, n \in Names : stored' = [stored EXCEPT !.choices[f] = n]
  <2>1. "catalog" \in Begin!Field /\ "prefix" \in Begin!Field /\ "group" \in Begin!Field
    BY DEF Begin!Field
  <2>2. run.pc \in {"save_prefix", "save_group"} => run.name \in Names
    BY <1>1 DEF SetupTypes, Saves
  <2>3. ASSUME NEW n \in Names, Begin!save_configuration(n) PROVE stored' = [stored EXCEPT !.choices["catalog"] = n]
    BY <2>3 DEF Begin!save_configuration
  <2>4. ASSUME Begin!SaveNext PROVE \/ run.name \in Names /\ stored' = [stored EXCEPT !.choices["prefix"] = run.name]
                                    \/ run.name \in Names /\ stored' = [stored EXCEPT !.choices["group"] = run.name]
    BY <2>2, <2>4 DEF Begin!SaveNext
  <2>5. QED
    BY <2>1, <2>3, <2>4 DEF Begin!SaveFails
<1>4. run'.pc = "idle" \/ (run'.pc \in Saves /\ DOMAIN run' = {"pc", "name"} /\ run'.name \in Names)
  <2>1. ASSUME NEW n \in Names, Begin!save_configuration(n) PROVE run' = [pc |-> "save_prefix", name |-> n]
    BY <2>1 DEF Begin!save_configuration
  <2>2. CASE Begin!SaveNext
    <3>1. DOMAIN run = {"pc", "name"} /\ run.name \in Names
      BY <1>1, <2>2 DEF SetupTypes, Begin!SaveNext, Saves
    <3>2. QED
      BY <2>2, <3>1 DEF Begin!SaveNext, Begin!Idle, Saves
  <2>3. QED
    BY <2>1, <2>2 DEF Begin!SaveFails, Begin!Idle, Saves
<1>5. /\ DOMAIN stored' = DOMAIN stored /\ stored'.overrides = stored.overrides /\ stored'.memo = stored.memo
      /\ stored'.warehouse = stored.warehouse /\ stored'.locked = stored.locked /\ stored'.completed = stored.completed
      /\ stored'.choices \in [Begin!Field -> Names \cup {None}]
  <2>1. DOMAIN stored = {"choices", "locked", "overrides", "memo", "ai", "warehouse", "completed"}
        /\ stored.choices \in [Begin!Field -> Names \cup {None}]
    BY <1>1 DEF SetupTypes
  <2>2. ASSUME NEW f \in Begin!Field, NEW n \in Names, stored' = [stored EXCEPT !.choices[f] = n]
        PROVE  /\ DOMAIN stored' = DOMAIN stored /\ stored'.overrides = stored.overrides /\ stored'.memo = stored.memo
               /\ stored'.warehouse = stored.warehouse /\ stored'.locked = stored.locked /\ stored'.completed = stored.completed
               /\ stored'.choices \in [Begin!Field -> Names \cup {None}]
    BY <2>1, <2>2
  <2>3. QED
    BY <1>3, <2>1, <2>2
<1>6. run'.pc \notin Walks /\ run'.pc \in {"idle"} \cup Saves /\ run'.pc # "migrate"
  BY <1>4 DEF Saves, Walks, Connected, Bound, Locked, HasJob, Migrated, Completed, Active
<1>7. SetupTypes'
  BY <1>1, <1>2, <1>4, <1>5, <1>6 DEF SetupTypes, Saves
<1>8. VouchInv'
  BY <1>1, <1>2, <1>5 DEF VouchInv, Begin!VouchedForThis
<1>9. WalkInv'
  BY <1>2, <1>5, <1>6 DEF SetupInv, WalkInv, Settled, Saves, Walks, Connected, Bound, Locked, HasJob, Migrated, Completed, Active
<1>10. Begin!LockNamesTheStorage' /\ Earned'
  BY <1>2, <1>5 DEF SetupInv, Begin!LockNamesTheStorage, Earned
<1>11. MigrateInv' /\ OneJob'
  BY <1>2, <1>6 DEF SetupInv, MigrateInv, OneJob
<1>12. QED
  BY <1>7, <1>8, <1>9, <1>10, <1>11 DEF SetupInv

(* What changes neither the walk nor what is resolved, bound and published. *)
LEMMA AsidesKeep ==
  ASSUME SetupInv, UNCHANGED <<deployed, process, report, run>>, Vouching,
         DOMAIN stored' = DOMAIN stored, stored'.choices = stored.choices, stored'.locked = stored.locked,
         stored'.completed = stored.completed, stored'.warehouse \in Names,
         DOMAIN stored'.overrides = Begin!OVERRIDABLE_STEPS, DOMAIN stored'.memo = Begin!Scopes,
         \A s \in Begin!OVERRIDABLE_STEPS : stored'.overrides[s] = None \/ stored'.overrides[s] \in vouched'.confirmed,
         \A s \in Begin!Scopes : stored'.memo[s] = None \/ stored'.memo[s] \in vouched'.verified,
         DOMAIN world' = DOMAIN world, world'.delta = world.delta, world'.postgres = world.postgres,
         world'.jobs \subseteq world.jobs, world'.runAs \in [Jobs -> Names \cup {Begin!App}],
         world'.schemas \in [Begin!Location -> {"absent", "ours", "foreign", "managed"}],
         \A l \in Begin!Location : world.schemas[l] # "absent" => world'.schemas[l] = world.schemas[l],
         Begin!SetupAssumption
  PROVE  SetupInv'
PROOF
<1>1. SetupTypes /\ VouchInv /\ Settled(run.pc)
  BY DEF SetupInv, WalkInv
<1>2. RunRecord \subseteq RunRecord'
  BY DEF RunRecord, ShownSet, Vouching
<1>3. SetupTypes'
  BY <1>1, <1>2 DEF SetupTypes
<1>4. VouchInv'
  BY <1>1 DEF VouchInv, Begin!VouchedForThis, Vouching
<1>5. Begin!Resolved' = Begin!Resolved
  BY ResolvedIsKept
<1>6. WalkInv'
  <2>1. run.pc \in {"volume", "lock"} => Begin!Place(process.bound) \in Begin!Location
    BY <1>1, ResolvedConfigs DEF Settled, Bound
  <2>2. run.pc \in {"volume", "lock"} => world'.schemas[Begin!Place(process.bound)] \in {"ours", "managed"}
    BY <1>1, <2>1 DEF Settled
  <2>3. QED
    BY <1>5, <2>2 DEF SetupInv, WalkInv, Settled
<1>7. Begin!LockNamesTheStorage'
  BY <1>1, <1>5, ResolvedConfigs DEF SetupInv, Begin!LockNamesTheStorage
<1>8. Earned' /\ MigrateInv' /\ OneJob'
  BY <1>5 DEF SetupInv, Earned, MigrateInv, OneJob
<1>9. QED
  BY <1>3, <1>4, <1>6, <1>7, <1>8 DEF SetupInv

(* What an administrator confirms or verifies is stored with what was confirmed
   or verified. *)
LEMMA ConfirmationsKeep ==
  ASSUME Begin!SetupAssumption, SetupInv, NEW step, NEW f \in BOOLEAN, Begin!override(step, f) \/ Begin!apply_grants(step, f),
         step \in Begin!Steps
  PROVE  SetupInv'
PROOF
<1>1. SetupTypes /\ VouchInv /\ DOMAIN vouched = {"confirmed", "verified"}
      /\ DOMAIN stored = {"choices", "locked", "overrides", "memo", "ai", "warehouse", "completed"}
      /\ DOMAIN stored.overrides = Begin!OVERRIDABLE_STEPS /\ DOMAIN stored.memo = Begin!Scopes
  BY DEF SetupInv, SetupTypes, VouchInv
<1>2. UNCHANGED <<deployed, world, process, report, run>>
  BY DEF Begin!override, Begin!apply_grants
<1>3. CASE Begin!override(step, f)
  <2>1. Begin!override_fingerprint(step, process.bound) = Begin!Subject(step, process.bound)
    BY DEF Begin!override_fingerprint, Begin!Subject
  <2>2. PICK o, ai, c : /\ stored' = [stored EXCEPT !.ai = ai, !.overrides[step] = o]
                        /\ vouched' = IF f THEN vouched ELSE [vouched EXCEPT !.confirmed = @ \cup {c}]
                        /\ o = IF f THEN stored.overrides[step] ELSE c
    BY <1>3, <2>1 DEF Begin!override
  <2>3. Vouching /\ (f => vouched' = vouched) /\ (~f => vouched'.confirmed = vouched.confirmed \cup {c}) /\ vouched'.verified = vouched.verified
    BY <1>1, <2>2 DEF Vouching
  <2>4. /\ DOMAIN stored' = DOMAIN stored /\ stored'.choices = stored.choices /\ stored'.locked = stored.locked
        /\ stored'.completed = stored.completed /\ stored'.warehouse = stored.warehouse /\ stored'.memo = stored.memo
        /\ stored'.overrides = [stored.overrides EXCEPT ![step] = o]
    BY <1>1, <2>2
  <2>5. \A s \in Begin!OVERRIDABLE_STEPS : stored'.overrides[s] = None \/ stored'.overrides[s] \in vouched'.confirmed
    BY <1>1, <2>2, <2>3, <2>4 DEF VouchInv
  <2>6. QED
    BY <1>1, <1>2, <2>3, <2>4, <2>5, AsidesKeep DEF SetupTypes, VouchInv
<1>4. CASE Begin!apply_grants(step, f)
  <2>1. \A scope : Begin!Requirement(scope, process.bound) = Begin!requirement_fingerprint(scope, process.bound)
    BY DEF Begin!Requirement, Begin!requirement_fingerprint
  <2>2. PICK scope, q : \/ /\ stored' = [stored EXCEPT !.memo[scope] = q]
                           /\ vouched' = [vouched EXCEPT !.verified = @ \cup {q}]
                        \/ stored' = stored /\ vouched' = vouched
    <3> DEFINE scope == IF step = "task_runner" THEN "task_runner" ELSE "unity_catalog"
               q == Begin!requirement_fingerprint(scope, process.bound)
    <3>1. \/ /\ stored' = [stored EXCEPT !.memo[scope] = q]
             /\ vouched' = [vouched EXCEPT !.verified = @ \cup {q}]
          \/ stored' = stored /\ vouched' = vouched
      BY <1>4, <2>1 DEF Begin!apply_grants
    <3>2. QED
      BY <3>1, Zenon
  <2>3. Vouching /\ vouched'.confirmed = vouched.confirmed
    BY <1>1, <2>2 DEF Vouching
  <2>4. /\ DOMAIN stored' = DOMAIN stored /\ stored'.choices = stored.choices /\ stored'.locked = stored.locked
        /\ stored'.completed = stored.completed /\ stored'.warehouse = stored.warehouse /\ stored'.overrides = stored.overrides
        /\ DOMAIN stored'.memo = Begin!Scopes
    BY <1>1, <2>2
  <2>5. \A s \in Begin!Scopes : stored'.memo[s] = None \/ stored'.memo[s] \in vouched'.verified
    BY <1>1, <2>2 DEF VouchInv
  <2>6. QED
    BY <1>1, <1>2, <2>3, <2>4, <2>5, AsidesKeep DEF SetupTypes, VouchInv
<1>5. QED
  BY <1>3, <1>4

(* What others do in the workspace and on the settings page. *)
LEMMA BystandersKeep ==
  ASSUME Begin!SetupAssumption, SetupInv,
         \/ \E n \in Names : Begin!set_task_runner_run_as(n) \/ Begin!ChangeWarehouse(n)
         \/ \E on \in BOOLEAN : Begin!SwitchAi(on)
         \/ Begin!Workspace
  PROVE  SetupInv'
PROOF
<1>1. /\ SetupTypes /\ VouchInv /\ DOMAIN world = {"schemas", "delta", "postgres", "jobs", "runAs"}
      /\ DOMAIN stored = {"choices", "locked", "overrides", "memo", "ai", "warehouse", "completed"}
  BY DEF SetupInv, SetupTypes
<1>2. UNCHANGED <<deployed, process, report, run, vouched>>
  BY DEF Begin!set_task_runner_run_as, Begin!ChangeWarehouse, Begin!SwitchAi, Begin!Workspace
<1>3. /\ DOMAIN stored' = DOMAIN stored /\ stored'.choices = stored.choices /\ stored'.locked = stored.locked
      /\ stored'.completed = stored.completed /\ stored'.overrides = stored.overrides /\ stored'.memo = stored.memo
      /\ stored'.warehouse \in Names
  <2>1. stored.warehouse \in Names
    BY <1>1 DEF SetupTypes
  <2>2. \/ stored' = stored \/ (\E n \in Names : stored' = [stored EXCEPT !.warehouse = n]) \/ \E ai : stored' = [stored EXCEPT !.ai = ai]
    BY DEF Begin!set_task_runner_run_as, Begin!ChangeWarehouse, Begin!SwitchAi, Begin!Workspace
  <2>3. QED
    BY <1>1, <2>1, <2>2
<1>4. \/ world' = world
      \/ \E j : \E n \in Names : world' = [world EXCEPT !.runAs[j] = n]
      \/ \E j \in world.jobs : world' = [world EXCEPT !.jobs = @ \ {j}]
      \/ /\ Begin!Resolved # None /\ world.schemas[Begin!Place(Begin!Resolved)] = "absent"
         /\ \E s \in {"foreign", "managed"} : world' = [world EXCEPT !.schemas[Begin!Place(Begin!Resolved)] = s]
  <2>1. ASSUME \E n \in Names : Begin!set_task_runner_run_as(n) PROVE \E j : \E n \in Names : world' = [world EXCEPT !.runAs[j] = n]
    BY <2>1 DEF Begin!set_task_runner_run_as
  <2>2. ASSUME (\E n \in Names : Begin!ChangeWarehouse(n)) \/ (\E on \in BOOLEAN : Begin!SwitchAi(on)) PROVE world' = world
    BY <2>2 DEF Begin!ChangeWarehouse, Begin!SwitchAi
  <2>3. CASE Begin!Workspace
    BY <2>3 DEF Begin!Workspace
  <2>4. \/ \E n \in Names : Begin!set_task_runner_run_as(n)
        \/ (\E n \in Names : Begin!ChangeWarehouse(n)) \/ (\E on \in BOOLEAN : Begin!SwitchAi(on))
        \/ Begin!Workspace
    BY Zenon
  <2>5. QED
    BY <2>1, <2>2, <2>3, <2>4, Zenon
<1>5. /\ DOMAIN world' = DOMAIN world /\ world'.delta = world.delta /\ world'.postgres = world.postgres
      /\ world'.jobs \subseteq world.jobs /\ world'.runAs \in [Jobs -> Names \cup {Begin!App}]
      /\ world'.schemas \in [Begin!Location -> {"absent", "ours", "foreign", "managed"}]
      /\ \A l \in Begin!Location : world.schemas[l] # "absent" => world'.schemas[l] = world.schemas[l]
  <2> DEFINE l == Begin!Place(Begin!Resolved)
             SchemaStates == {"absent", "ours", "foreign", "managed"}
             Runners == Names \cup {Begin!App}
  <2>1. world.runAs \in [Jobs -> Runners] /\ world.schemas \in [Begin!Location -> SchemaStates]
    BY <1>1 DEF SetupTypes
  <2>2. "foreign" \in SchemaStates /\ "managed" \in SchemaStates /\ Names \subseteq Runners
    OBVIOUS
  <2> HIDE DEF l, SchemaStates, Runners
  <2>3. CASE world' = world
    BY <2>1, <2>3 DEF SchemaStates, Runners
  <2>4. ASSUME NEW j, NEW n \in Names, world' = [world EXCEPT !.runAs[j] = n]
        PROVE  /\ DOMAIN world' = DOMAIN world /\ world'.delta = world.delta /\ world'.postgres = world.postgres
               /\ world'.jobs = world.jobs /\ world'.runAs \in [Jobs -> Runners] /\ world'.schemas = world.schemas
    BY <1>1, <2>1, <2>2, <2>4
  <2>5. ASSUME NEW j \in world.jobs, world' = [world EXCEPT !.jobs = @ \ {j}]
        PROVE  /\ DOMAIN world' = DOMAIN world /\ world'.delta = world.delta /\ world'.postgres = world.postgres
               /\ world'.jobs \subseteq world.jobs /\ world'.runAs = world.runAs /\ world'.schemas = world.schemas
    BY <1>1, <2>5
  <2>6. ASSUME NEW s \in {"foreign", "managed"}, world.schemas[l] = "absent", world' = [world EXCEPT !.schemas[l] = s]
        PROVE  /\ DOMAIN world' = DOMAIN world /\ world'.delta = world.delta /\ world'.postgres = world.postgres
               /\ world'.jobs = world.jobs /\ world'.runAs = world.runAs
               /\ world'.schemas \in [Begin!Location -> SchemaStates]
               /\ \A k \in Begin!Location : world.schemas[k] # "absent" => world'.schemas[k] = world.schemas[k]
    <3>1. DOMAIN world' = DOMAIN world /\ world'.delta = world.delta /\ world'.postgres = world.postgres
          /\ world'.jobs = world.jobs /\ world'.runAs = world.runAs /\ world'.schemas = [world.schemas EXCEPT ![l] = s]
      BY <1>1, <2>6
    <3>2. s \in SchemaStates
      BY <2>2, <2>6
    <3>3. world'.schemas \in [Begin!Location -> SchemaStates]
      BY <2>1, <3>1, <3>2
    <3>4. \A k \in Begin!Location : k # l => world'.schemas[k] = world.schemas[k]
      BY <2>1, <3>1
    <3>5. QED
      BY <2>6, <3>1, <3>3, <3>4
  <2>7. QED
    BY <1>4, <2>1, <2>3, <2>4, <2>5, <2>6 DEF l, SchemaStates, Runners
<1>6. Vouching
  BY <1>1, <1>2 DEF VouchInv, Vouching
<1>7. /\ DOMAIN stored'.overrides = Begin!OVERRIDABLE_STEPS /\ DOMAIN stored'.memo = Begin!Scopes
      /\ \A s \in Begin!OVERRIDABLE_STEPS : stored'.overrides[s] = None \/ stored'.overrides[s] \in vouched'.confirmed
      /\ \A s \in Begin!Scopes : stored'.memo[s] = None \/ stored'.memo[s] \in vouched'.verified
  BY <1>1, <1>2, <1>3 DEF SetupTypes, VouchInv
<1>8. QED
  BY <1>2, <1>3, <1>5, <1>6, <1>7, AsidesKeep

LEMMA SetupBegins ==
  ASSUME Begin!SetupAssumption, Begin!Init
  PROVE  SetupInv
PROOF
<1> DEFINE SchemaStates == {"absent", "ours", "foreign", "managed"}
<1>1. PICK s \in {"absent", "managed"}, n \in {Begin!App, 1} :
        /\ n # Begin!App => deployed
        /\ world = [schemas |-> [l \in Begin!Location |-> IF l = Begin!Place(Begin!Bundle) THEN s ELSE "absent"],
                    delta |-> [l \in Begin!Location |-> [done |-> {}, recorded |-> {}]],
                    postgres |-> 0, jobs |-> IF deployed THEN {1} ELSE {}, runAs |-> [j \in {1, 2} |-> IF j = 1 THEN n ELSE Begin!App]]
  BY DEF Begin!Init
<1>2. /\ stored = [choices |-> [f \in Begin!Field |-> None], locked |-> FALSE,
                   overrides |-> [s_1 \in Begin!OVERRIDABLE_STEPS |-> None], memo |-> [s_1 \in Begin!Scopes |-> None],
                   ai |-> [enabled |-> TRUE, source |-> "setup"], warehouse |-> CHOOSE w \in Names : TRUE, completed |-> FALSE]
      /\ (CHOOSE w \in Names : TRUE) \in Names
  BY DEF Begin!Init, Begin!SetupAssumption
<1>3. /\ deployed \in BOOLEAN /\ process = Begin!Down /\ report = Begin!Checking /\ run = Begin!Idle
      /\ vouched = [confirmed |-> {}, verified |-> {}]
  BY DEF Begin!Init
<1>4. n \in Names \cup {Begin!App}
  BY DEF Begin!SetupAssumption
<1>5. /\ DOMAIN world = {"schemas", "delta", "postgres", "jobs", "runAs"} /\ world.postgres = 0
      /\ world.jobs = (IF deployed THEN {1} ELSE {})
      /\ world.schemas = [l \in Begin!Location |-> IF l = Begin!Place(Begin!Bundle) THEN s ELSE "absent"]
      /\ world.delta = [l \in Begin!Location |-> [done |-> {}, recorded |-> {}]]
      /\ world.runAs = [j \in {1, 2} |-> IF j = 1 THEN n ELSE Begin!App]
  BY <1>1
<1>6. [done |-> {}, recorded |-> {}] \in Progress
  BY DEF Progress
<1>7. /\ world.schemas \in [Begin!Location -> SchemaStates] /\ world.delta \in [Begin!Location -> Progress]
      /\ world.jobs \in SUBSET Jobs /\ world.runAs \in [Jobs -> Names \cup {Begin!App}]
  <2>1. world.schemas \in [Begin!Location -> SchemaStates]
    BY <1>5
  <2>2. world.delta \in [Begin!Location -> Progress]
    BY <1>5, <1>6
  <2>3. world.jobs \in SUBSET Jobs
    BY <1>5 DEF Jobs
  <2>4. world.runAs \in [Jobs -> Names \cup {Begin!App}]
    BY <1>4, <1>5 DEF Jobs
  <2>5. QED
    BY <2>1, <2>2, <2>3, <2>4
<1>8. /\ DOMAIN stored = {"choices", "locked", "overrides", "memo", "ai", "warehouse", "completed"}
      /\ stored.choices = [f \in Begin!Field |-> None] /\ stored.locked = FALSE /\ stored.completed = FALSE /\ stored.warehouse \in Names
      /\ stored.overrides = [s_1 \in Begin!OVERRIDABLE_STEPS |-> None] /\ stored.memo = [s_1 \in Begin!Scopes |-> None]
  BY <1>2
<1>9. process \in Processes /\ process.bound = None
  BY <1>3 DEF Begin!Down, Begin!Closed, Processes, ConfigOrNone, JobOrNone
<1>10. run.pc = "idle" /\ report.state = "checking" /\ report.shown.overridden = {} /\ report.shown.trusted = {}
  BY <1>3 DEF Begin!Idle, Begin!Checking, Begin!Blank
<1>11. SetupTypes
  BY <1>3, <1>5, <1>7, <1>8, <1>9, <1>10 DEF SetupTypes, Saves, Walks, Connected, Bound, Locked, HasJob, Migrated, Completed, Active
<1>12. VouchInv
  BY <1>3, <1>8, <1>10 DEF VouchInv, Begin!VouchedForThis
<1>13. WalkInv
  BY <1>5, <1>9, <1>10, NothingIsSettled DEF WalkInv
<1>14. Begin!LockNamesTheStorage /\ Earned
  BY <1>8, <1>10 DEF Begin!LockNamesTheStorage, Earned
<1>15. MigrateInv /\ OneJob
  BY <1>5, <1>10 DEF MigrateInv, OneJob
<1>16. QED
  BY <1>11, <1>12, <1>13, <1>14, <1>15 DEF SetupInv

(* A locked configuration names storage that is Studio's, READY is published
   when what it promises is there, and what is shown as overridden or trusted
   was confirmed or verified for just that (LockNamesTheStorage, ReadyIsEarned,
   VouchedForThis of Setup), wherever the process ends and whatever fails. *)
THEOREM SetupKeepsItsPromises ==
  ASSUME Begin!SetupAssumption
  PROVE  Begin!Spec => [](Begin!LockNamesTheStorage /\ Begin!ReadyIsEarned /\ Begin!VouchedForThis)
PROOF
<1>1. Begin!Init => SetupInv
  BY SetupBegins
<1>2. SetupInv /\ [Begin!Next]_Begin!vars => SetupInv'
  <2>1. SUFFICES ASSUME SetupInv, [Begin!Next]_Begin!vars PROVE SetupInv'
    OBVIOUS
  <2>2. CASE UNCHANGED Begin!vars
    <3>1. UNCHANGED <<deployed, stored, world, process, report, run, vouched, budget>>
      BY <2>2 DEF Begin!vars
    <3>2. Begin!Resolved' = Begin!Resolved
      BY <3>1, ResolvedIsKept
    <3>3. SetupTypes' /\ VouchInv'
      BY <2>1, <3>1 DEF SetupInv, SetupTypes, VouchInv, Begin!VouchedForThis, RunRecord, ShownSet
    <3>4. WalkInv' /\ Begin!LockNamesTheStorage' /\ Earned' /\ MigrateInv' /\ OneJob'
      BY <2>1, <3>1, <3>2 DEF SetupInv, WalkInv, Settled, Begin!LockNamesTheStorage, Earned, MigrateInv, OneJob
    <3>5. QED
      BY <3>3, <3>4 DEF SetupInv
  <2>3. CASE Begin!Next
    <3> USE <2>1
    <3>1. CASE \/ Begin!start_studio \/ Begin!reconcile \/ Begin!Crash
      BY <3>1, StartsKeep
    <3>2. CASE \/ \E st \in {"identity", "lakebase"}, r \in {Begin!_passed, Begin!_action_required} : Begin!Bootstrap(st, r)
               \/ Begin!ResolveFails
      BY <3>2, FirstChecksKeep
    <3>3. CASE \E upto \in 0 .. Len(Begin!Statements) : Begin!RunPostgresMigrations(upto)
      BY <3>3, PostgresMigrationsKeep
    <3>4. CASE \E f \in BOOLEAN : Begin!_resolve_configuration(f)
      BY <3>4, ResolvedStepKeeps
    <3>5. CASE \/ \E a \in SUBSET {"missing", "catalog"} : Begin!check_unity_catalog(a)
               \/ \E a \in SUBSET {"missing", "catalog", "schema"} :
                    \/ Begin!check_runner_access("runner_access", "task_runner", a, "wheels")
                    \/ Begin!check_runner_access("outputs", "task_runner_outputs", a, "completion")
      BY <3>5, MemoChecksKeep
    <3>6. CASE \E status \in {"ok", "missing", "collision", "incomplete", "failed"} : Begin!ensure_storage(status) \/ Begin!RecheckStorage(status)
      BY <3>6, StorageChecksKeep
    <3>7. CASE \E f \in BOOLEAN : Begin!_create_storage(f)
      BY <3>7, CreateStepKeeps
    <3>8. CASE \E f \in BOOLEAN : Begin!LockConfiguration(f)
      BY <3>8, LockStepKeeps
    <3>9. CASE \E f \in BOOLEAN : Begin!_apply(f)
      BY <3>9, ApplyStepKeeps
    <3>10. CASE \E f \in BOOLEAN : Begin!record_setup_completion(f)
      BY <3>10, CompletionKeeps
    <3>11. CASE \E f \in BOOLEAN : Begin!activate_studio(f)
      BY <3>11, ActivationKeeps
    <3>12. CASE (\E r \in {Begin!_passed, Begin!_failed} : Begin!_reconcile_wheels(r)) \/ (\E f \in BOOLEAN : Begin!SaveAiEnabled(f))
      BY <3>12, WheelsAndAiKeep
    <3>13. CASE \E r : Begin!_check_volume_access(r)
      BY <3>13, VolumeCheckKeeps
    <3>14. CASE \/ \E r \in {Begin!_passed, Begin!Overridable(FALSE)} : Begin!check_warehouse(r)
                \/ \E c \in SUBSET {"missing", "unknown"}, s \in {"granted", "missing", "unknown", "not_applicable"} : Begin!reconcile_access(c, s)
                \/ \E q \in SUBSET {"endpoint", "missing", "unverified"} : Begin!check_ai_access(q)
                \/ Begin!AiSettingsUnreadable
      BY <3>14, AccessChecksKeep
    <3>15. CASE (\E j \in {1, 2} : Begin!_reconcile_job(j))
      BY <3>15, JobStepKeeps
    <3>16. CASE Begin!JobCallFails
      BY <3>16, JobCallKeeps
    <3>17. CASE Begin!PlanMigrations
      BY <3>17, PlanStepKeeps
    <3>18. CASE \E r \in {Begin!_passed, Begin!Warning(TRUE, FALSE), Begin!Overridable(FALSE)} : Begin!check_app_sharing(r)
      BY <3>18, SharingStepKeeps
    <3>19. CASE (\E n \in Names : Begin!save_configuration(n)) \/ Begin!SaveNext \/ Begin!SaveFails
      BY <3>19, SavesKeep
    <3>20. CASE \E st \in Begin!Steps, f \in BOOLEAN : Begin!override(st, f) \/ Begin!apply_grants(st, f)
      BY <3>20, ConfirmationsKeep
    <3>21. CASE \/ \E n \in Names : Begin!set_task_runner_run_as(n) \/ Begin!ChangeWarehouse(n)
                \/ \E on \in BOOLEAN : Begin!SwitchAi(on)
                \/ Begin!Workspace
      BY <3>21, BystandersKeep
    <3>22. Begin!OVERRIDABLE_STEPS \subseteq Begin!Steps
      BY DEF Begin!OVERRIDABLE_STEPS, Begin!Steps
    <3>23. QED
      BY <2>3, <3>1, <3>2, <3>3, <3>4, <3>5, <3>6, <3>7, <3>8, <3>9, <3>10, <3>11, <3>12, <3>13, <3>14, <3>15, <3>16, <3>17, <3>18, <3>19, <3>20, <3>21, <3>22, Zenon DEF Begin!Next
  <2>4. QED
    BY <2>1, <2>2, <2>3
<1>3. SetupInv => Begin!LockNamesTheStorage /\ Begin!ReadyIsEarned /\ Begin!VouchedForThis
  <2>1. SUFFICES ASSUME SetupInv PROVE Begin!ReadyIsEarned
    BY DEF SetupInv, VouchInv
  <2>2. Len(Begin!Statements) = 2 /\ \A v \in {1, 2} : Len(Begin!Statements[v]) = 1
    BY StatementsCounted
  <2>3. Begin!Cardinality(world.jobs) <= 1
    <3>1. CASE world.jobs = {}
      <4>1. Cardinality(world.jobs) = 0
        BY <3>1, FS_EmptySet
      <4>2. QED
        BY <4>1, JobsCounted
    <3>2. CASE world.jobs # {}
      <4>1. PICK j : world.jobs = {j}
        BY <2>1, <3>2 DEF SetupInv, OneJob
      <4>2. Cardinality(world.jobs) = 1
        BY <4>1, FS_Singleton
      <4>3. QED
        BY <4>2, JobsCounted
    <3>3. QED
      BY <3>1, <3>2
  <2>4. \A l \in Begin!Location : \A v \in world.delta[l].recorded : \A i \in 1 .. Len(Begin!Statements[v]) : <<v, i>> \in world.delta[l].done
    <3>1. SUFFICES ASSUME NEW l \in Begin!Location, NEW v \in world.delta[l].recorded, NEW i \in 1 .. Len(Begin!Statements[v])
                   PROVE  <<v, i>> \in world.delta[l].done
      OBVIOUS
    <3>2. v \in {1, 2}
      <4>1. Begin!Versions = 1 .. 2
        BY <2>2 DEF Begin!Versions
      <4>2. world.delta[l].recorded \in SUBSET Begin!Versions
        BY <2>1 DEF SetupInv, SetupTypes, Progress
      <4>3. QED
        BY <4>1, <4>2
    <3>3. i = 1
      <4>1. Len(Begin!Statements[v]) = 1
        BY <2>2, <3>2
      <4>2. QED
        BY <4>1
    <3>4. QED
      BY <2>1, <3>3 DEF SetupInv, MigrateInv
  <2>5. QED
    BY <2>1, <2>2, <2>3, <2>4 DEF SetupInv, Earned, Begin!ReadyIsEarned
<1>4. QED
  BY <1>1, <1>2, <1>3, PTL DEF Begin!Spec
=============================================================================
