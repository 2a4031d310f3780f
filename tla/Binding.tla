------------------------------ MODULE Binding ------------------------------
(***************************************************************************)
(* A monitored table: the rules applied to it (dq_applied_rules), the      *)
(* checks materialized from them (dq_resolved_rules), its review and its   *)
(* frozen versions (dq_monitored_table_versions).                          *)
(*                                                                         *)
(* A request is a plan, a sequence of phases; a phase is one service call  *)
(* and takes a step per statement whose order matters, so that two         *)
(* requests interleave as they do on the worker threads of the application.*)
(* The registry is seen through what VersionStore promises.                *)
(***************************************************************************)
EXTENDS Naturals, Sequences, FiniteSets, TLC

CONSTANTS
  Rules,
  Contents,    \* what a published version of a rule checks
  Mappings,    \* column mappings
  Groups,      \* indices of the groups of a mapping
  Fits,        \* Fits[c][m]: the groups of m that content c can be rendered for
  Edits,       \* severity override, pass threshold and tags of an application
  Apps,        \* ids of applications, minted by inserts
  Requests,
  FaultKinds,  \* "crash": a request dies between two statements;
               \* "snapshot": the registry commits a version and loses its snapshot
  None,
  MaxVersion,  \* bound on versions, of rules and of the table
  MaxOps       \* bound on requests

ASSUME BindingAssumption ==
  /\ Apps # {} /\ Rules # {} /\ Contents # {} /\ Mappings # {} /\ Groups # {} /\ Edits # {}
  /\ Fits \in [Contents -> [Mappings -> SUBSET Groups]]
  /\ FaultKinds \subseteq {"crash", "snapshot"}
  /\ MaxVersion \in Nat \ {0} /\ MaxOps \in Nat

VARIABLES
  table,       \* dq_monitored_tables: [status, version], or None once deleted
  apps,        \* dq_applied_rules
  rows,        \* dq_resolved_rules: one row per application and group
  frozen,      \* dq_monitored_table_versions: references per version, or None
  staged,      \* dq_pending_applications: staged[r] is a mapping or None
  suppressed,  \* dq_tag_auto_suppressions: pairs of rule and mapping
  reg,         \* dq_rules: [approved, version], or None
  saved, snap, \* dq_rule_versions, as VersionStore has it
  autoUpgrade, \* the setting auto_upgrade_without_approval
  req, ops,
  decided,     \* history: <<application, version>> accepted by a reviewer
  honoured,    \* history: <<rule, mapping>> ever applied
  asked,       \* history: <<rule, mapping>> staged, no activation under way
  cut,         \* history: versions whose freeze was cut short
  minted       \* history: ids ever inserted

store == <<saved, snap>>
tables == <<table, apps, rows, frozen, staged, suppressed, reg>>
history == <<decided, honoured, asked, cut, minted>>
vars == <<tables, store, autoUpgrade, req, ops, history>>

-----------------------------------------------------------------------------
RowStatuses == {"draft", "pending_approval", "approved", "rejected"}

VALID_TRANSITIONS ==
  [ draft            |-> {"pending_approval"},
    pending_approval |-> {"approved", "rejected", "draft"},
    approved         |-> {"draft"},
    rejected         |-> {"draft"} ]

\* pin 0 follows the newest version; auto marks a tag-driven attachment.
Applications == [rule : Rules, mapping : Mappings, pin : 0..MaxVersion, edit : Edits, auto : BOOLEAN]

Keys == Apps \X Groups

Versions == 1..MaxVersion

\* A materialized check: version and content of the rule, edit of the application.
Checks == [status : RowStatuses, version : Versions, content : Contents, edit : Edits]

\* What a frozen version keeps of an application.
Refs == [rule : Rules, mapping : Mappings, version : Versions, edit : Edits]

ASSUME NoneAssumption ==
  None \notin Checks /\ None \notin [Apps -> Refs \cup {None}]

\* The transition a phase makes of every row in a status.
Moves ==
  [ thaw     |-> [from |-> "rejected",         to |-> "draft"],
    raise    |-> [from |-> "draft",            to |-> "pending_approval"],
    accept   |-> [from |-> "pending_approval", to |-> "approved"],
    deny     |-> [from |-> "pending_approval", to |-> "rejected"],
    withdraw |-> [from |-> "pending_approval", to |-> "draft"] ]

\* The routes, by the service calls they make; auto is an automatic approval.
Plans ==
  [ submit     |-> {<<"mat", "thaw", "raise", "roll">>,
                    <<"mat", "thaw", "raise", "roll", "accept", "roll", "freeze">>},
    approve    |-> {<<"gate", "accept", "roll", "freeze">>},
    reject     |-> {<<"gate", "deny", "mark">>},
    revert     |-> {<<"gate", "withdraw", "mark">>},
    publish    |-> {<<"publish", "snapshot", "activate", "mat", "settle">>},
    row_submit |-> {<<"raise">>, <<"raise", "accept", "refreeze">>},
    row_revoke |-> {<<"withdraw">>},
    row_approve |-> {<<"accept", "refreeze">>},
    row_reject |-> {<<"deny", "refreeze">>},
    apply      |-> {<<"apply">>},
    save       |-> {<<"unapply", "apply">>},
    remove     |-> {<<"unapply">>},
    attach     |-> {<<"attach">>},
    drop       |-> {<<"drop">>} ]

Some(S) == CHOOSE x \in S : TRUE

OnRow == {"row_submit", "row_revoke", "row_approve", "row_reject"}

Idle == [plan |-> <<>>]

-----------------------------------------------------------------------------
\* Some rules were published and some of them applied before the requests
\* that are followed here.
Init ==
  /\ table = [status |-> "draft", version |-> 0]
  /\ rows = [k \in Keys |-> None]
  /\ frozen = [v \in Versions |-> None]
  /\ staged = [r \in Rules |-> None]
  /\ suppressed = {}
  /\ \E known \in SUBSET Rules, a \in Apps :
       /\ minted \in {{}} \cup (IF known # {} THEN {{a}} ELSE {})
       /\ apps = [x \in Apps |-> IF x \notin minted THEN None
                                ELSE [rule |-> Some(known), mapping |-> Some(Mappings), pin |-> 0, edit |-> Some(Edits), auto |-> TRUE]]
       /\ reg = [r \in Rules |-> [approved |-> r \in known, version |-> IF r \in known THEN 1 ELSE 0]]
       /\ snap = [r \in Rules |-> [v \in Versions |-> IF r \in known /\ v = 1 THEN {Some(Contents)} ELSE {}]]
  /\ saved = [r \in Rules |-> Contents]
  /\ autoUpgrade \in BOOLEAN
  /\ req = [q \in Requests |-> Idle]
  /\ ops = 0
  /\ decided = {} /\ honoured = {} /\ asked = {} /\ cut = {}

Live == {a \in Apps : apps[a] # None}

Phase(q, phase, step) == req[q] # Idle /\ Head(req[q].plan) = phase /\ req[q].step = step

Goto(q, step) == req' = [req EXCEPT ![q].step = step]

Fail(q) == req' = [req EXCEPT ![q] = Idle]

\* The locals of a phase, before it has read anything.
NoCopy == [a \in Apps |-> None]
NoneSeen == [g \in Groups |-> None]

\* A request about one row does not list the rows.
FirstStep(kind, plan) == IF kind \in OnRow /\ Head(plan) \in DOMAIN Moves THEN "check" ELSE "list"

\* The request r goes on with its next phase, or ends.
Advance(r) ==
  IF Len(r.plan) = 1 THEN Idle
  ELSE [r EXCEPT !.plan = Tail(@), !.step = FirstStep(r.kind, Tail(r.plan)),
                 !.todo = IF r.kind \in OnRow THEN {r.key} ELSE {},
                 !.copy = NoCopy, !.check = None, !.seen = NoneSeen, !.number = 0, !.refs = None]

Return(q) == req' = [req EXCEPT ![q] = Advance(@)]

\* A failed apply_rule ends the request, but not an activation: the staged
\* row stays and publishing goes on.
Refuse(q) ==
  LET r == req[q] IN
  req' = [req EXCEPT ![q] = IF r.kind = "publish" THEN Advance([r EXCEPT !.plan = Tail(r.plan)]) ELSE Idle]

\* A request arrives with what its body and path name.
Arrive(q, kind, plan, a, g, app, c) ==
  /\ ops' = ops + 1
  /\ req' = [req EXCEPT ![q] =
       [kind |-> kind, plan |-> plan, step |-> FirstStep(kind, plan),
        app |-> a, key |-> <<a, g>>, body |-> app, content |-> c,
        todo |-> IF kind \in OnRow THEN {<<a, g>>} ELSE {},
        copy |-> NoCopy, check |-> None, seen |-> NoneSeen,
        number |-> 0, refs |-> None]]
  /\ UNCHANGED <<tables, store, autoUpgrade, history>>

-----------------------------------------------------------------------------
(* The registry, as far as it is seen from here *)

Store == INSTANCE VersionStore

\* approve of the registry commits the next version ...
PublishRule(q) ==
  /\ Phase(q, "publish", "list")
  /\ LET r == req[q].body.rule IN
     /\ reg[r] # None /\ reg[r].version < MaxVersion
     /\ reg' = [reg EXCEPT ![r] = [approved |-> TRUE, version |-> @.version + 1]]
     /\ req' = [req EXCEPT ![q] = [Advance(@) EXCEPT !.number = reg[r].version + 1]]
  /\ UNCHANGED <<table, apps, rows, frozen, staged, suppressed, store, autoUpgrade, ops, history>>

\* ... and then stores its snapshot.
PublishSnapshot(q) ==
  /\ Phase(q, "snapshot", "list")
  /\ Store!Publish(req[q].body.rule, req[q].number, req[q].content)
  /\ Return(q)
  /\ UNCHANGED <<tables, autoUpgrade, ops, history>>

PublishLost(q) ==
  /\ Phase(q, "snapshot", "list")
  /\ "snapshot" \in FaultKinds
  /\ Fail(q)
  /\ UNCHANGED <<tables, store, autoUpgrade, ops, history>>

\* A rule leaves the approved status (deprecated, or edited and resubmitted).
Retire(r) ==
  /\ reg[r] # None /\ reg[r].approved
  /\ ops < MaxOps
  /\ ops' = ops + 1
  /\ reg' = [reg EXCEPT ![r].approved = FALSE]
  /\ UNCHANGED <<table, apps, rows, frozen, staged, suppressed, store, autoUpgrade, req, history>>

\* A rule is deleted when it has no application.
DeleteRule(r) ==
  /\ reg[r] # None
  /\ \A a \in Live : apps[a].rule # r
  /\ ops < MaxOps
  /\ ops' = ops + 1
  /\ reg' = [reg EXCEPT ![r] = None]
  /\ UNCHANGED <<table, apps, rows, frozen, staged, suppressed, store, autoUpgrade, req, history>>

-----------------------------------------------------------------------------
(* Applications *)

\* The staged row of r was listed and will be deleted, whatever it says by then.
Activating(r) ==
  \E q \in Requests : req[q] # Idle /\ req[q].body.rule = r /\ \E i \in 1..Len(req[q].plan) : req[q].plan[i] = "forget"

\* record: a rule that is not published yet is staged for the table.
Stage(r, m) ==
  /\ ops < MaxOps
  /\ ops' = ops + 1
  /\ staged' = [staged EXCEPT ![r] = m]
  /\ asked' = {k \in asked : k[1] # r} \cup (IF Activating(r) THEN {} ELSE {<<r, m>>})
  /\ UNCHANGED <<table, apps, rows, frozen, suppressed, reg, store, autoUpgrade, req, decided, honoured, cut, minted>>

Applicable(r) == table # None /\ reg[r] # None /\ reg[r].approved

SameKey(app) == {a \in Live : apps[a].rule = app.rule /\ apps[a].mapping = app.mapping}

\* apply_rule and attach_auto_mapping: the rule must be published, and an
\* attachment that a user removed is not made again.
ApplyCheck(q) ==
  /\ Phase(q, "apply", "list") \/ Phase(q, "attach", "list")
  /\ LET app == req[q].body IN
     IF Applicable(app.rule) /\ ~(req[q].kind = "attach" /\ <<app.rule, app.mapping>> \in suppressed)
     THEN Goto(q, "lookup") ELSE Refuse(q)
  /\ UNCHANGED <<tables, store, autoUpgrade, ops, history>>

\* An application with the same mapping is updated, never by an attachment.
ApplyLookup(q) ==
  /\ Phase(q, "apply", "lookup") \/ Phase(q, "attach", "lookup")
  /\ LET same == SameKey(req[q].body) IN
     IF same # {} /\ req[q].kind = "attach" THEN Fail(q)
     ELSE req' = [req EXCEPT ![q].step = IF same # {} THEN "update" ELSE "insert", ![q].todo = same]
  /\ UNCHANGED <<tables, store, autoUpgrade, ops, history>>

\* _update_mutable_fields
ApplyUpdate(q) ==
  /\ Phase(q, "apply", "update")
  /\ apps' = [a \in Apps |-> IF a \in req[q].todo \cap Live
                             THEN [apps[a] EXCEPT !.pin = req[q].body.pin, !.edit = req[q].body.edit]
                             ELSE apps[a]]
  /\ honoured' = honoured \cup {<<req[q].body.rule, req[q].body.mapping>>}
  /\ Return(q)
  /\ UNCHANGED <<table, rows, frozen, staged, suppressed, reg, store, autoUpgrade, ops, decided, asked, cut, minted>>

\* _insert under UNIQUE (binding_id, rule_id, mapping_hash); the setting for
\* new attachments may pin the version of the day.
ApplyInsert(q, a, pin) ==
  /\ Phase(q, "apply", "insert") \/ Phase(q, "attach", "insert")
  /\ a \notin minted
  /\ LET app == req[q].body IN
     /\ pin \in {app.pin} \cup (IF app.pin = 0 /\ reg[app.rule] # None THEN {reg[app.rule].version} ELSE {})
     /\ IF SameKey(app) # {} THEN Refuse(q) /\ UNCHANGED <<apps, honoured, minted>>
        ELSE /\ apps' = [apps EXCEPT ![a] = [app EXCEPT !.pin = pin, !.auto = req[q].kind = "attach"]]
             /\ honoured' = honoured \cup {<<app.rule, app.mapping>>}
             /\ minted' = minted \cup {a}
             /\ Return(q)
  /\ UNCHANGED <<table, rows, frozen, staged, suppressed, reg, store, autoUpgrade, ops, decided, asked, cut>>

\* set_pin and set_severity_override
EditApplication(a, pin, edit) ==
  /\ ops < MaxOps
  /\ apps[a] # None
  /\ pin = apps[a].pin \/ edit = apps[a].edit
  /\ ops' = ops + 1
  /\ apps' = [apps EXCEPT ![a].pin = pin, ![a].edit = edit]
  /\ UNCHANGED <<table, rows, frozen, staged, suppressed, reg, store, autoUpgrade, req, history>>

\* remove_applied: the checks, then the application, then the suppression.
RemoveChecks(q) ==
  /\ Phase(q, "unapply", "list")
  /\ LET a == req[q].app IN
     IF apps[a] = None THEN Fail(q) /\ UNCHANGED rows
     ELSE /\ rows' = [k \in Keys |-> IF k[1] = a THEN None ELSE rows[k]]
          /\ req' = [req EXCEPT ![q].step = "delete", ![q].copy = apps]
  /\ UNCHANGED <<table, apps, frozen, staged, suppressed, reg, store, autoUpgrade, ops, history>>

RemoveApplication(q) ==
  /\ Phase(q, "unapply", "delete")
  /\ apps' = [apps EXCEPT ![req[q].app] = None]
  /\ IF req[q].copy[req[q].app].auto THEN Goto(q, "suppress") ELSE Return(q)
  /\ UNCHANGED <<table, rows, frozen, staged, suppressed, reg, store, autoUpgrade, ops, history>>

Suppress(q) ==
  /\ Phase(q, "unapply", "suppress")
  /\ LET app == req[q].copy[req[q].app] IN suppressed' = suppressed \cup {<<app.rule, app.mapping>>}
  /\ Return(q)
  /\ UNCHANGED <<table, apps, rows, frozen, staged, reg, store, autoUpgrade, ops, history>>

\* delete of the table: the applications, then the table; checks stay.
DropApplications(q) ==
  /\ Phase(q, "drop", "list")
  /\ IF table = None THEN Fail(q) /\ UNCHANGED apps
     ELSE apps' = [a \in Apps |-> None] /\ Goto(q, "delete")
  /\ UNCHANGED <<table, rows, frozen, staged, suppressed, reg, store, autoUpgrade, ops, history>>

DropTable(q) ==
  /\ Phase(q, "drop", "delete")
  /\ table' = None
  /\ Return(q)
  /\ UNCHANGED <<apps, rows, frozen, staged, suppressed, reg, store, autoUpgrade, ops, history>>

\* Mutant: the staged application is deleted before it is applied.
ForgetStaged(q) ==
  /\ Phase(q, "activate", "list")
  /\ LET r == req[q].body.rule IN
     IF staged[r] = None THEN Return(q) /\ UNCHANGED staged
     ELSE /\ staged' = [staged EXCEPT ![r] = None]
          /\ req' = [req EXCEPT ![q].plan = <<"apply", "forget">> \o Tail(@),
                                ![q].body.mapping = staged[r], ![q].body.pin = 0]
  /\ UNCHANGED <<table, apps, rows, frozen, suppressed, reg, store, autoUpgrade, ops, history>>

\* _activate_pending_applications: apply_rule for what was staged for the rule ...
Activate(q) ==
  /\ Phase(q, "activate", "list")
  /\ LET r == req[q].body.rule IN
     IF staged[r] = None THEN Return(q)
     ELSE req' = [req EXCEPT ![q].plan = <<"apply", "forget">> \o Tail(@),
                             ![q].body.mapping = staged[r], ![q].body.pin = 0]
  /\ UNCHANGED <<tables, store, autoUpgrade, ops, history>>

\* ... and only then the staged row is deleted.
Forget(q) ==
  /\ Phase(q, "forget", "list")
  /\ staged' = [staged EXCEPT ![req[q].body.rule] = None]
  /\ Return(q)
  /\ UNCHANGED <<table, apps, rows, frozen, suppressed, reg, store, autoUpgrade, ops, history>>

-----------------------------------------------------------------------------
(* The materializer *)

\* _resolve_registry: the pinned version, or the one the rule shows.
Chosen(app) == IF reg[app.rule] = None THEN 0 ELSE IF app.pin # 0 THEN app.pin ELSE reg[app.rule].version

Resolvable(app) == Chosen(app) # 0 /\ snap[app.rule][Chosen(app)] # {}

\* Mutant: the check is rendered from the rule's present text.
RenderLive(app) ==
  [version |-> Chosen(app), content |-> CHOOSE c \in saved[app.rule] : TRUE, edit |-> app.edit]

\* _iter_rendered_checks: the published content with the edits of the application.
Render(app) ==
  [version |-> Chosen(app), content |-> CHOOSE c \in snap[app.rule][Chosen(app)] : TRUE, edit |-> app.edit]

\* materialize_binding reads the applications once.  A publication
\* re-materializes the table only if a follower uses the rule.
MaterializeList(q) ==
  /\ Phase(q, "mat", "list")
  /\ IF \/ req[q].kind = "publish" /\ \A a \in Live : apps[a].rule # req[q].body.rule \/ apps[a].pin # 0
        \/ table = None
     THEN Fail(q)
     ELSE req' = [req EXCEPT ![q].step = "render", ![q].todo = Live, ![q].copy = apps]
  /\ UNCHANGED <<tables, store, autoUpgrade, ops, history>>

\* Mutant: checks that can no longer be rendered are taken for stale groups.
RendersNothing(app) == Resolvable(app)

\* An application whose rule, version or snapshot is missing, or that no
\* longer fits, keeps the checks it has.
Renders(app) == Resolvable(app) /\ Fits[Render(app).content][app.mapping] # {}

MaterializeRender(q, a) ==
  /\ Phase(q, "mat", "render") /\ a \in req[q].todo
  /\ LET app == req[q].copy[a] IN
     IF Renders(app)
     THEN req' = [req EXCEPT ![q].step = "read", ![q].app = a, ![q].check = Render(app)]
     ELSE req' = [req EXCEPT ![q].todo = @ \ {a}]
  /\ UNCHANGED <<tables, store, autoUpgrade, ops, history>>

\* _get_materialized_row
MaterializeRead(q) ==
  /\ Phase(q, "mat", "read")
  /\ req' = [req EXCEPT ![q].step = "write", ![q].seen = [g \in Groups |-> rows[<<req[q].app, g>>]]]
  /\ UNCHANGED <<tables, store, autoUpgrade, ops, history>>

SameCheck(row, check) == row.version = check.version /\ row.content = check.content /\ row.edit = check.edit

\* Mutant: an approved check stays approved whatever it becomes.
ApprovedForGood(row, check, pinned) == IF row.status = "rejected" THEN "draft" ELSE row.status

\* _decide_status
DecideStatus(row, check, pinned) ==
  IF SameCheck(row, check) THEN row.status
  ELSE CASE row.status = "approved" ->
              IF ~pinned /\ row.version # check.version /\ autoUpgrade THEN "approved" ELSE "pending_approval"
         [] row.status = "rejected" -> "draft"
         [] OTHER -> row.status

Stamp(check, status) ==
  [status |-> status, version |-> check.version, content |-> check.content, edit |-> check.edit]

\* _upsert_materialized_row for every group, and _delete_stale_groups.  An
\* insert over a row that appeared since fails; an update of a row that
\* disappeared does nothing.
MaterializeWrite(q) ==
  /\ Phase(q, "mat", "write")
  /\ LET a == req[q].app
         app == req[q].copy[a]
         check == req[q].check
         fit == Fits[check.content][app.mapping]
         new(g) == IF g \notin fit THEN None
                   ELSE IF req[q].seen[g] = None THEN Stamp(check, "draft")
                   ELSE IF rows[<<a, g>>] = None THEN None
                   ELSE Stamp(check, DecideStatus(req[q].seen[g], check, app.pin # 0))
     IN IF \E g \in fit : req[q].seen[g] = None /\ rows[<<a, g>>] # None
        THEN Fail(q) /\ UNCHANGED rows
        ELSE /\ rows' = [k \in Keys |-> IF k[1] = a THEN new(k[2]) ELSE rows[k]]
             /\ req' = [req EXCEPT ![q].step = "render", ![q].todo = @ \ {a}, ![q].check = None, ![q].seen = NoneSeen]
  /\ UNCHANGED <<table, apps, frozen, staged, suppressed, reg, store, autoUpgrade, ops, history>>

\* _cleanup_orphans: checks of applications that the list did not have.
CleanupOrphans(q) ==
  /\ Phase(q, "mat", "render") /\ req[q].todo = {}
  /\ rows' = [k \in Keys |-> IF req[q].copy[k[1]] = None THEN None ELSE rows[k]]
  /\ Return(q)
  /\ UNCHANGED <<table, apps, frozen, staged, suppressed, reg, store, autoUpgrade, ops, history>>

-----------------------------------------------------------------------------
(* Review *)

\* The routes ask for a table under review.
Gate(q) ==
  /\ Phase(q, "gate", "list")
  /\ IF table # None /\ table.status = "pending_approval" THEN Return(q) ELSE Fail(q)
  /\ UNCHANGED <<tables, store, autoUpgrade, ops, history>>

Transition(q) == Moves[Head(req[q].plan)]

InTransition(q, step) ==
  /\ req[q] # Idle /\ Head(req[q].plan) \in DOMAIN Moves /\ req[q].step = step

\* Request r has these rows left to move.
Left(r, keys) == IF keys = {} THEN Advance(r) ELSE [r EXCEPT !.step = "check", !.todo = keys, !.number = 0]

\* list_materialized_rule_statuses, once per transition.
ListRows(q) ==
  /\ InTransition(q, "list")
  /\ req' = [req EXCEPT ![q] = Left(@, {k \in Keys : k[1] \in Live /\ rows[k] # None /\ rows[k].status = Transition(q).from})]
  /\ UNCHANGED <<tables, store, autoUpgrade, ops, history>>

\* _check_no_duplicate_pending_or_approved: another check with the same function and arguments.
Duplicate(k) ==
  \E j \in Keys \ {k} :
    /\ rows[j] # None /\ rows[j].status \in {"pending_approval", "approved"}
    /\ rows[j].content = rows[k].content /\ j[2] = k[2]
    /\ j[1] \in Live /\ k[1] \in Live /\ apps[j[1]].mapping = apps[k[1]].mapping

\* set_status reads the row and checks the transition ...
CheckRow(q, k) ==
  /\ InTransition(q, "check") /\ k \in req[q].todo
  /\ IF /\ rows[k] # None
        /\ Transition(q).to \in VALID_TRANSITIONS[rows[k].status]
        /\ Transition(q).to = "pending_approval" => ~Duplicate(k)
     THEN req' = [req EXCEPT ![q].step = "set", ![q].key = k, ![q].number = rows[k].version]
     ELSE IF req[q].kind \in OnRow THEN Fail(q)
     ELSE req' = [req EXCEPT ![q] = Left(@, req[q].todo \ {k})]
  /\ UNCHANGED <<tables, store, autoUpgrade, ops, history>>

\* ... and the UPDATE names the version that was read.
Unmoved(k, version) == rows[k] # None /\ rows[k].version = version

SetRow(q) ==
  /\ InTransition(q, "set")
  /\ LET k == req[q].key  to == Transition(q).to IN
     /\ rows' = IF Unmoved(k, req[q].number) THEN [rows EXCEPT ![k].status = to] ELSE rows
     /\ decided' = IF to = "approved" THEN decided \cup {<<k[1], req[q].number>>} ELSE decided
     /\ IF Unmoved(k, req[q].number) \/ req[q].kind \notin OnRow
        THEN req' = [req EXCEPT ![q] = Left(@, req[q].todo \ {k})]
        ELSE Fail(q)
  /\ UNCHANGED <<table, apps, frozen, staged, suppressed, reg, store, autoUpgrade, ops, honoured, asked, cut, minted>>

Shown == {rows[k].status : k \in {j \in Keys : j[1] \in Live /\ rows[j] # None}}

\* Mutant: a table without checks gets a status of its own.
RollUpEmpty ==
  IF Shown = {} THEN "empty"
  ELSE IF "pending_approval" \in Shown THEN "pending_approval"
  ELSE IF "approved" \in Shown THEN "approved" ELSE "draft"

\* _rollup_binding_status
RollUp ==
  IF "pending_approval" \in Shown THEN "pending_approval"
  ELSE IF "approved" \in Shown THEN "approved" ELSE "draft"

SetStatus(q, status) ==
  IF table = None THEN Fail(q) /\ UNCHANGED table
  ELSE table' = [table EXCEPT !.status = status] /\ Return(q)

\* Submission and approval roll the table up, rejection and revert name its status.
SetTableStatus(q) ==
  /\ \/ Phase(q, "roll", "list") /\ SetStatus(q, RollUp)
     \/ Phase(q, "mark", "list") /\ SetStatus(q, IF req[q].kind = "reject" THEN "rejected" ELSE "draft")
  /\ UNCHANGED <<apps, rows, frozen, staged, suppressed, reg, store, autoUpgrade, ops, history>>

\* _publish_registry_rule refreezes under automatic upgrades, otherwise rollup_status.
Settle(q) ==
  /\ Phase(q, "settle", "list")
  /\ IF autoUpgrade
     THEN req' = [req EXCEPT ![q].plan = <<"refreeze">>] /\ UNCHANGED table
     ELSE IF Shown = {} THEN Fail(q) /\ UNCHANGED table
     ELSE SetStatus(q, RollUp)
  /\ UNCHANGED <<apps, rows, frozen, staged, suppressed, reg, store, autoUpgrade, ops, history>>

-----------------------------------------------------------------------------
(* Frozen versions *)

\* freeze_new_version and refreeze_current read the table and its applications ...
FreezeDetail(q) ==
  /\ Phase(q, "freeze", "list") \/ Phase(q, "refreeze", "list")
  /\ IF \/ table = None
        \/ Head(req[q].plan) = "refreeze" /\ table.version = 0
        \/ req[q].kind \in OnRow /\ (rows[req[q].key] = None \/ req[q].key[1] \notin Live)
     THEN Fail(q)
     ELSE req' = [req EXCEPT ![q].step = "compute", ![q].copy = apps, ![q].number = table.version]
  /\ UNCHANGED <<tables, store, autoUpgrade, ops, history>>

\* _current_approved_snapshot: the version of the approved checks, with the
\* mapping and the edits the application has now.
ApprovedRefs(copy) ==
  [a \in Apps |->
     LET ks == {k \in {a} \X Groups : rows[k] # None /\ rows[k].status = "approved"} IN
     IF copy[a] = None \/ ks = {} THEN None
     ELSE [rule |-> copy[a].rule, mapping |-> copy[a].mapping, edit |-> copy[a].edit,
           version |-> rows[CHOOSE k \in ks : TRUE].version]]

Empty(refs) == \A a \in Apps : refs[a] = None

\* ... then the approved checks; a refreeze does not empty a version.
FreezeCompute(q) ==
  /\ Phase(q, "freeze", "compute") \/ Phase(q, "refreeze", "compute")
  /\ LET refs == ApprovedRefs(req[q].copy)
         v == req[q].number
     IN IF Head(req[q].plan) = "freeze"
        THEN /\ table # None /\ table.version < MaxVersion
             /\ req' = [req EXCEPT ![q].step = "bump", ![q].refs = refs, ![q].number = table.version + 1]
        ELSE IF Empty(refs) /\ frozen[v] # None /\ ~Empty(frozen[v]) THEN Fail(q)
        ELSE req' = [req EXCEPT ![q].step = "update", ![q].refs = refs]
  /\ UNCHANGED <<tables, store, autoUpgrade, ops, history>>

\* The table shows the new version first ...
FreezeBump(q) ==
  /\ Phase(q, "freeze", "bump")
  /\ table' = IF table = None THEN None ELSE [table EXCEPT !.version = req[q].number]
  /\ Goto(q, "insert")
  /\ UNCHANGED <<apps, rows, frozen, staged, suppressed, reg, store, autoUpgrade, ops, history>>

\* Mutant: the snapshot is stored under the version before.
InsertOneEarlier(v, refs) == [frozen EXCEPT ![IF v > 1 THEN v - 1 ELSE v] = refs]

\* UNIQUE (binding_id, version): a second snapshot of a version is refused.
InsertFrozen(v, refs) == IF frozen[v] # None THEN frozen ELSE [frozen EXCEPT ![v] = refs]

\* ... and its snapshot is inserted after.
FreezeInsert(q) ==
  /\ Phase(q, "freeze", "insert")
  /\ frozen' = InsertFrozen(req[q].number, req[q].refs)
  /\ Return(q)
  /\ UNCHANGED <<table, apps, rows, staged, suppressed, reg, store, autoUpgrade, ops, history>>

\* refreeze_current overwrites the version it read.
RefreezeUpdate(q) ==
  /\ Phase(q, "refreeze", "update")
  /\ frozen' = [frozen EXCEPT ![req[q].number] = IF @ = None THEN None ELSE req[q].refs]
  /\ Return(q)
  /\ UNCHANGED <<table, apps, rows, staged, suppressed, reg, store, autoUpgrade, ops, history>>

\* The process dies, or a statement raises, before a request's next statement.
Crash(q) ==
  /\ "crash" \in FaultKinds
  /\ req[q] # Idle
  /\ Fail(q)
  /\ cut' = IF Phase(q, "freeze", "insert") THEN cut \cup {req[q].number} ELSE cut
  /\ UNCHANGED <<tables, store, autoUpgrade, ops, decided, honoured, asked, minted>>

-----------------------------------------------------------------------------
Serve(q) ==
  \/ PublishRule(q) \/ PublishSnapshot(q) \/ PublishLost(q) \/ Activate(q) \/ Forget(q)
  \/ ApplyCheck(q) \/ ApplyLookup(q) \/ ApplyUpdate(q)
  \/ \E a \in Apps, pin \in 0..MaxVersion : ApplyInsert(q, a, pin)
  \/ RemoveChecks(q) \/ RemoveApplication(q) \/ Suppress(q) \/ DropApplications(q) \/ DropTable(q)
  \/ MaterializeList(q) \/ MaterializeRead(q) \/ MaterializeWrite(q) \/ CleanupOrphans(q)
  \/ \E a \in Apps : MaterializeRender(q, a)
  \/ Gate(q) \/ ListRows(q) \/ SetRow(q) \/ SetTableStatus(q) \/ Settle(q)
  \/ \E k \in Keys : CheckRow(q, k)
  \/ FreezeDetail(q) \/ FreezeCompute(q) \/ FreezeBump(q) \/ FreezeInsert(q) \/ RefreezeUpdate(q)

\* What the paths and bodies of the requests name.
Targets(kind) == IF kind \in OnRow \cup {"save", "remove"} THEN minted ELSE {Some(Apps)}
Indices(kind) == IF kind \in OnRow THEN Groups ELSE {Some(Groups)}
NewContents(kind) == IF kind = "publish" THEN Contents ELSE {Some(Contents)}
Bodies(kind) ==
  {app \in Applications :
     /\ ~app.auto
     /\ kind \notin {"apply", "save"} => app.pin = 0 /\ app.edit = Some(Edits)
     /\ kind \notin {"apply", "save", "attach"} => app.mapping = Some(Mappings)
     /\ kind \notin {"apply", "save", "attach", "publish"} => app.rule = Some(Rules)}

\* A worker thread takes a request.
Receive(q) ==
  /\ req[q] = Idle /\ ops < MaxOps
  /\ \E kind \in DOMAIN Plans :
       \E plan \in Plans[kind], a \in Targets(kind), g \in Indices(kind), app \in Bodies(kind), c \in NewContents(kind) :
         Arrive(q, kind, plan, a, g, app, c)

Next ==
  \/ \E q \in Requests : Receive(q) \/ Serve(q) \/ Crash(q)
  \/ \E r \in Rules : Retire(r) \/ DeleteRule(r) \/ \E m \in Mappings : Stage(r, m)
  \/ \E a \in Apps, pin \in 0..MaxVersion, edit \in Edits : EditApplication(a, pin, edit)

Spec == Init /\ [][Next]_vars

-----------------------------------------------------------------------------
(* Properties *)

\* The values the variables may take.
TypeOK ==
  /\ table \in [status : RowStatuses, version : 0..MaxVersion] \cup {None}
  /\ apps \in [Apps -> Applications \cup {None}]
  /\ rows \in [Keys -> Checks \cup {None}]
  /\ frozen \in [Versions -> [Apps -> Refs \cup {None}] \cup {None}]
  /\ staged \in [Rules -> Mappings \cup {None}]
  /\ suppressed \subseteq Rules \X Mappings
  /\ reg \in [Rules -> [approved : BOOLEAN, version : 0..MaxVersion] \cup {None}]
  /\ autoUpgrade \in BOOLEAN
  /\ ops \in 0..MaxOps
  /\ \A q \in Requests : req[q] # Idle => req[q].plan # <<>> /\ req[q].todo \subseteq Apps \cup Keys

\* Without automatic upgrades a reviewer accepted every version of a rule
\* that is approved for the table or referenced by one of its frozen
\* versions, although the materializer rewrites status and version of checks
\* from earlier reads while reviews run (_decide_status, set_status,
\* _current_approved_snapshot).
ReviewedVersionsOnly ==
  ~autoUpgrade =>
    /\ \A k \in Keys : rows[k] # None /\ rows[k].status = "approved" => <<k[1], rows[k].version>> \in decided
    /\ \A v \in Versions, a \in Apps :
         frozen[v] # None /\ frozen[v][a] # None => <<a, frozen[v][a].version>> \in decided

\* Every check, and every reference of a frozen version, names a published
\* version that can be rendered again, and a check has the content of the
\* version it names (_resolve_registry, get_checks).
ChecksComeFromTheStore ==
  /\ \A k \in Keys : rows[k] # None /\ k[1] \in Live => snap[apps[k[1]].rule][rows[k].version] = {rows[k].content}
  /\ \A v \in Versions, a \in Apps :
       frozen[v] # None /\ frozen[v][a] # None => snap[frozen[v][a].rule][frozen[v][a].version] # {}

Freezing(v) == \E q \in Requests : Phase(q, "freeze", "insert") /\ req[q].number = v

\* The version a table shows, and every one below it, can be run: its
\* snapshot is stored, is about to be, or was cut off by a crash
\* (freeze_new_version).
VersionHasSnapshot ==
  table # None => \A v \in 1..table.version : frozen[v] # None \/ Freezing(v) \/ v \in cut

\* An application staged for a rule that is not published yet is not lost:
\* it stays staged until it was applied, whatever fails in between
\* (record, _activate_pending_applications).
StagedIsNotLost == \A k \in asked : staged[k[1]] = k[2] \/ k \in honoured

\* The groups a materialization has a check for.
Rendered(q) == Fits[req[q].check.content][req[q].copy[req[q].app].mapping]

\* The check of an application that is still there disappears only with a
\* removal, when a materialization renders it for other groups, or when one
\* that listed the applications before it was applied sweeps it
\* (_materialize_applied_rule keeps what it cannot render again;
\* _delete_stale_groups, _cleanup_orphans).
ChecksAreKept ==
  [][\A k \in Keys : rows[k] # None /\ rows'[k] = None /\ k[1] \in Live =>
       \E q \in Requests : req[q] # Idle /\ (\/ Head(req[q].plan) = "unapply" /\ req[q].app = k[1]
                                             \/ Phase(q, "mat", "write") /\ req[q].app = k[1] /\ Rendered(q) # {} /\ k[2] \notin Rendered(q)
                                             \/ Phase(q, "mat", "render") /\ req[q].copy[k[1]] = None)]_vars

\* What runs is in the store: the contents of checks, the references of
\* versions, and the versions themselves.
StoreHoldsWhatRuns == ChecksComeFromTheStore /\ VersionHasSnapshot

\* Neither a staged application nor a check of a live one gets lost.
NothingIsLost == []StagedIsNotLost /\ ChecksAreKept

\* What the frozen versions are documented to be: identical to what was
\* materialized and reviewed, edits of the application included.
FrozenIsWhatWasReviewed ==
  \A q \in Requests, a \in Apps :
    Phase(q, "freeze", "insert") /\ req[q].refs[a] # None =>
      \A g \in Groups : rows[<<a, g>>] # None => rows[<<a, g>>].edit = req[q].refs[a].edit

-----------------------------------------------------------------------------
(* For small instances. *)

\* One content fits every mapping, any other none: a version with another slot.
OneMisfit == [c \in Contents |-> [m \in Mappings |-> IF c = Some(Contents) THEN Groups ELSE {}]]

\* Worker threads and ids are interchangeable.
Alike == Permutations(Requests) \cup Permutations(Apps)

=============================================================================
