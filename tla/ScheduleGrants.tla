--------------------------- MODULE ScheduleGrants ---------------------------
(***************************************************************************)
(* Whether a user may put a table on a schedule                            *)
(* (services/schedule_grant_service.py).  A schedule reads the table as    *)
(* two service principals, the app's and the task runner's: both need      *)
(* USE CATALOG, USE SCHEMA and SELECT.  The service sees Unity Catalog     *)
(* only through calls that may be refused or unanswered, and grants SELECT *)
(* with the rights of the user.  Unity Catalog is external: world is what  *)
(* holds there and which questions it answers.                             *)
(***************************************************************************)
EXTENDS Naturals, Sequences, SequencesExt

VARIABLES input, output

Levels == {"CATALOG", "SCHEMA"}
Principals == {"app", "runner"}

\* How a principal holds the usage privilege on a level: granted to it or to a
\* group it is in, by owning the level or through a group that owns it.
Holdings == {"direct", "group", "owner", "group_owner", "none"}

Failures == {"configuration", "permissions", "warehouse"}

-----------------------------------------------------------------------------
(* What holds in Unity Catalog. *)

HasUsage(world, p) == \A l \in Levels : world.usage[p][l] # "none"
CanRead(world, p) == HasUsage(world, p) /\ world.selects[p]
CanGrant(world) == world.caller \in {"owner", "manage"}

\* The task runner's principal: the app's own when the job runs as the app.
Runner(world) == IF world.runner = "same" THEN "app" ELSE "runner"

-----------------------------------------------------------------------------
(* Inspection: each answer is "yes", "no" or the reason there is none. *)

\* SHOW GRANTS runs as the caller, on the warehouse.
_show_grants(world) ==
  CASE world.warehouse = "unset" -> "configuration"
    [] world.warehouse = "down" -> "warehouse"
    [] world.warehouse = "denies" -> "permissions"
    [] world.warehouse = "up" -> "rows"

\* The groups of a service principal come from the directory.
_scheduler_principals(world, held) ==
  IF ~world.directory THEN "configuration" ELSE IF held THEN "yes" ELSE "no"

\* Effective privileges as the app; when they are refused, the rows of SHOW
\* GRANTS for the principal and for its groups.
_parent_privileges(world, p, l) ==
  LET held == world.usage[p][l]
      shown == _show_grants(world)
  IN IF world.effective THEN IF held = "direct" THEN "yes" ELSE "no"
     ELSE IF shown # "rows" THEN shown
     ELSE IF held \in {"direct", "owner"} THEN "yes"
     ELSE _scheduler_principals(world, held \in {"group", "group_owner"})

_parent_owner(world, p, l) ==
  IF ~world.ownersOfParents THEN "permissions"
  ELSE IF world.usage[p][l] = "owner" THEN "yes"
  ELSE _scheduler_principals(world, world.usage[p][l] = "group_owner")

\* Ownership answers where privileges do not; an answer or a failure is kept
\* for the rest of the request.
Either(privileges, owner) ==
  IF privileges = "yes" THEN "yes"
  ELSE IF privileges \in Failures /\ owner = "no" THEN privileges
  ELSE owner
_parent_has_usage(world, cache, p, l) ==
  IF cache[p][l] # "unknown" THEN cache[p][l]
  ELSE Either(_parent_privileges(world, p, l), _parent_owner(world, p, l))

\* The principals in the order asked, the app's first.
Asked(world) ==
  IF Runner(world) = "app" THEN << <<"app", "CATALOG">>, <<"app", "SCHEMA">> >>
  ELSE << <<"app", "CATALOG">>, <<"app", "SCHEMA">>, <<"runner", "CATALOG">>, <<"runner", "SCHEMA">> >>

\* What a request remembers of the levels it asked about.
Remembered(world, cache) ==
  [p \in Principals |-> [l \in Levels |->
     IF world.appKnown /\ world.runner # "unknown" /\ <<p, l>> \in Range(Asked(world))
     THEN _parent_has_usage(world, cache, p, l) ELSE cache[p][l]]]

\* The first question without an answer ends the inspection with its reason.
Inspected(world, asked, answers) ==
  LET failed == {i \in DOMAIN asked : answers[asked[i][1]][asked[i][2]] \in Failures}
      first == asked[CHOOSE i \in failed : \A j \in failed : i <= j]
      missing == {q \in Range(asked) : answers[q[1]][q[2]] = "no"}
  IN IF ~world.appKnown \/ world.runner = "unknown" THEN [answer |-> "configuration", missing |-> {}]
     ELSE IF failed # {} THEN [answer |-> answers[first[1]][first[2]], missing |-> {}]
     ELSE [answer |-> IF missing = {} THEN "yes" ELSE "no", missing |-> missing]
_require_source_parents(world, cache) == Inspected(world, Asked(world), Remembered(world, cache))

Fresh == [p \in Principals |-> [l \in Levels |-> "unknown"]]
\* Mutant: what a request remembers outlives it.
KeepsCaches(cache) == cache

clear_caches(cache) == Fresh

\* Owners first, which the caller may be unable to read, then MANAGE among the
\* grants of the table.
user_can_manage(world) ==
  LET shown == _show_grants(world)
  IN IF ~world.callerKnown THEN "configuration"
     ELSE IF world.ownersOfTable /\ world.caller = "owner" THEN "yes"
     ELSE IF shown # "rows" THEN shown
     ELSE IF CanGrant(world) THEN "yes"
     ELSE IF ~world.ownersOfTable THEN "permissions"
     ELSE "no"

\* A zero-row SELECT; what the warehouse refuses is a no, its silence is not.
_probe_read(world, readable) ==
  CASE world.warehouse = "unset" -> "no"
    [] world.warehouse = "down" -> "warehouse"
    [] OTHER -> IF readable THEN "yes" ELSE "no"

scheduler_can_read(world) == _probe_read(world, CanRead(world, "app"))

\* Only a job that runs as the app has nothing left to grant.
_needs_no_grant(world) ==
  IF world.runner = "other" THEN "no"
  ELSE LET app == scheduler_can_read(world)
           user == _probe_read(world, world.callerReads)
       IN IF app # "yes" THEN app ELSE user

\* parents is what the inspection of the levels answers.
can_schedule(world, parents) ==
  LET free == _needs_no_grant(world)
      manages == user_can_manage(world)
  IN IF world.builtin THEN "yes"
     ELSE IF parents # "yes" THEN parents
     ELSE IF free = "yes" THEN "yes"
     ELSE IF free = "warehouse" /\ manages # "yes" THEN IF manages \in Failures THEN manages ELSE free
     ELSE manages

\* Who could help with a refused table: the grants its parents lack, or else
\* the owners and MANAGE holders of the table.
manage_holders(world, missing) ==
  IF missing # {} THEN "grants"
  ELSE IF _show_grants(world) # "rows" THEN _show_grants(world)
  ELSE "holders"

\* One table of the preflight: unverified is a reason, and neither a yes nor a no.
Reported(world, can, lacking) ==
  LET missing == IF can = "yes" \/ world.builtin THEN {} ELSE lacking
      help == manage_holders(world, missing)
      unverified == IF can \in Failures THEN can
                    ELSE IF can = "no" /\ help \in Failures THEN help ELSE "verified"
  IN [can_manage |-> can = "yes" /\ unverified = "verified",
      missing |-> IF unverified = "verified" THEN missing ELSE {},
      help |-> IF can = "no" THEN help ELSE "none",
      unverified |-> unverified]
Verdict(world, parents) == Reported(world, can_schedule(world, parents.answer), parents.missing)
Preflight(world, cache) == Verdict(world, _require_source_parents(world, cache))

-----------------------------------------------------------------------------
(* Granting. *)

\* GRANT SELECT as the caller.
Granted(world, p) == [world EXCEPT !.selects[p] = TRUE]
GrantWorks(world) == world.warehouse \in {"up", "denies"} /\ CanGrant(world)

\* After a passed preflight: parents again, then SELECT for the app unless it
\* reads already, then for a task runner of its own.
grant_select_precleared(world, cache) ==
  LET app == scheduler_can_read(world) = "yes"
      runner == world.runner = "other"
      granted == LET w == IF app THEN world ELSE Granted(world, "app")
                 IN IF runner THEN Granted(w, "runner") ELSE w
  IN IF world.builtin THEN [done |-> TRUE, world |-> world]
     ELSE IF _require_source_parents(world, cache).answer # "yes" THEN [done |-> FALSE, world |-> world]
     ELSE IF (~app \/ runner) /\ ~GrantWorks(world) THEN [done |-> FALSE, world |-> world]
     ELSE [done |-> TRUE, world |-> granted]

\* An administrator runs the statements the preflight lists; what one of them
\* changes is only seen by asking again.
AfterGrants(world, allowed, before) ==
  LET applied == [world EXCEPT !.usage = [p \in Principals |-> [l \in Levels |->
                    IF allowed /\ <<p, l>> \in before.missing THEN "direct" ELSE @[p][l]]]]
  IN [before |-> before, after |-> Preflight(applied, clear_caches(Remembered(world, Fresh))), world |-> applied]
apply_missing_grants(world, allowed) == AfterGrants(world, allowed, Preflight(world, Fresh))

-----------------------------------------------------------------------------
(* Any table, seen through any answers.  At most one level is held in some  *)
(* other way than by a direct grant.                                       *)

Usages ==
  LET direct == [p \in Principals |-> [l \in Levels |-> "direct"]]
  IN {[direct EXCEPT ![p][l] = h] : p \in Principals, l \in Levels, h \in Holdings}

World ==
  [usage : Usages, selects : [Principals -> BOOLEAN], appKnown : BOOLEAN,
   runner : {"other", "same", "unknown"}, builtin : BOOLEAN,
   warehouse : {"up", "down", "denies", "unset"}, effective : BOOLEAN, directory : BOOLEAN,
   ownersOfParents : BOOLEAN, ownersOfTable : BOOLEAN, callerKnown : BOOLEAN,
   caller : {"owner", "manage", "reader"}, callerReads : BOOLEAN]

\* What has no bearing on a question is not varied with it: a sample needs no
\* grants, who cannot be named cannot be asked about, and a task runner without
\* a principal of its own needs nothing of its own.
Init ==
  /\ input \in {w \in World :
       /\ w.builtin => w.appKnown /\ w.callerKnown /\ w.runner = "other"
       /\ w.appKnown \/ w.callerKnown
       /\ w.caller # "reader" => w.callerReads
       /\ w.runner # "other" => ~w.selects["runner"] /\ \A l \in Levels : w.usage["runner"][l] = "direct"
       /\ (w.appKnown /\ w.runner # "unknown") \/ (w.effective /\ w.directory /\ w.ownersOfParents)}
  /\ output = [kind |-> "none"]

Schedule ==
  /\ output.kind = "none"
  /\ LET before == Preflight(input, Fresh)
     IN output' = [kind |-> "schedule", preflight |-> before,
                   grant |-> IF before.can_manage THEN grant_select_precleared(input, Remembered(input, Fresh))
                             ELSE [done |-> FALSE, world |-> input]]
  /\ UNCHANGED input

Repair ==
  /\ output.kind = "none"
  /\ \E allowed \in BOOLEAN :
       LET result == apply_missing_grants(input, allowed)
       IN output' = [kind |-> "repair", allowed |-> allowed, before |-> result.before, after |-> result.after]
  /\ UNCHANGED input

Next == Schedule \/ Repair

schedulesVars == <<input, output>>
Spec == Init /\ [][Next]_schedulesVars

-----------------------------------------------------------------------------

\* A table that passed the preflight and took its grants can be read by both
\* principals of the schedule, whatever stands behind their privileges; and
\* while the warehouse answers, a passed table does take its grants.
PassedTablesAreReadable ==
  output.kind = "schedule" /\ output.preflight.can_manage =>
    /\ output.grant.done =>
         input.builtin \/ \A p \in {"app", Runner(input)} : CanRead(output.grant.world, p)
    /\ input.warehouse \in {"up", "denies"} => output.grant.done

\* Statements an administrator could run remove every reason of that kind, and
\* are listed only for privileges that no one holds yet.
RepairsHelp ==
  output.kind = "repair" =>
    /\ output.allowed => output.after.missing = {}
    /\ \A q \in output.before.missing : input.usage[q[1]][q[2]] \in {"none", "group"}
=============================================================================
