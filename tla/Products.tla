------------------------------ MODULE Products ------------------------------
(***************************************************************************)
(* One table space, called data product in the code, with its members      *)
(* (services/data_product_service.py, routes/v1/data_products.py and       *)
(* services/draft_run_gate_service.py).  A request reads the product,      *)
(* decides, and writes what it decided; another request may have come      *)
(* between.  The members are stored in Lakebase, which keeps one row per   *)
(* product and table.                                                      *)
(***************************************************************************)
EXTENDS Naturals, FiniteSets

CONSTANTS
  Requests,    \* who sends requests, one at a time each
  Tables,      \* monitored tables
  Live,        \* the pin of a member that follows the latest approved version
  MaxEdits     \* bound: edits of the name or description, membership and of tables

\* Assumed: Live \notin Nat /\ MaxEdits \in Nat

VARIABLES
  product,     \* the row: [exists, status, published, text]; published once it has a version
  pins,        \* the members: a function from tables to pinned versions
  bindings,    \* per table its status and version
  runs,        \* per table what runs of it since the product last changed
  request,     \* per request its step and what it has read
  sent,        \* history: the contents a submission was let through with
  strayed,     \* history: a decision was written over somebody else's change, or an edit died half-way
  edits

productVars == <<product, pins, bindings, runs, request, sent, strayed, edits>>

Contents == <<pins, product.text>>
Idle == [step |-> "idle", stale |-> FALSE]
NoRuns == [t \in Tables |-> "none"]
_is_runnable(t) == bindings[t].status = "approved" /\ bindings[t].version > 0

-----------------------------------------------------------------------------
(* Steps. *)

\* A write sets updated_at; what others have read is then of the past.
Wrote(r, next) ==
  /\ request' = [q \in Requests |-> IF q = r THEN next ELSE [request[q] EXCEPT !.stale = TRUE]]
  /\ runs' = NoRuns
Reads(r, next) == request' = [request EXCEPT ![r] = next]
At(step) == [step |-> step, stale |-> FALSE]

create(r) ==
  /\ ~product.exists /\ request[r] = Idle
  /\ product' = [exists |-> TRUE, status |-> "draft", published |-> FALSE, text |-> 0]
  /\ pins' = <<>> /\ sent' = {} /\ Wrote(r, Idle)
  /\ UNCHANGED <<bindings, strayed, edits>>

\* Only the schedule may change without another review.
update(r, schedule_only) ==
  /\ product.exists /\ request[r] = Idle /\ edits < MaxEdits
  /\ product' = IF schedule_only THEN product ELSE [product EXCEPT !.status = "draft", !.text = @ + 1]
  /\ Wrote(r, Idle)
  /\ edits' = edits + 1
  /\ UNCHANGED <<pins, bindings, sent, strayed>>

\* Members and product go in one transaction.
delete(r) ==
  /\ product.exists /\ request[r] = Idle
  /\ product' = [product EXCEPT !.exists = FALSE] /\ pins' = <<>> /\ Wrote(r, Idle)
  /\ UNCHANGED <<bindings, sent, strayed, edits>>

\* add_member: a table that is a member already is pinned anew, whatever has
\* become of its approval; another must be approved.
add_member(r) ==
  /\ product.exists /\ request[r] = Idle /\ edits < MaxEdits
  /\ \E t \in Tables, pin \in {Live, 1} :
       /\ t \in DOMAIN pins \/ _is_runnable(t)
       /\ \E resolved \in IF t \notin DOMAIN pins /\ pin = Live THEN {Live, bindings[t].version} ELSE {pin} :
            Reads(r, [step |-> IF t \in DOMAIN pins THEN "repin" ELSE "insert", stale |-> FALSE, table |-> t, pin |-> resolved])
  /\ edits' = edits + 1
  /\ UNCHANGED <<product, pins, bindings, runs, sent, strayed>>

\* A bug: pinning a member to another version needs no review.
PinsFreely(r) ==
  /\ request[r].step \in {"insert", "repin"}
  /\ LET t == request[r].table
         there == IF request[r].step = "insert" THEN DOMAIN pins \cup {t} ELSE DOMAIN pins
     IN pins' = [u \in there |-> IF u = t THEN request[r].pin ELSE pins[u]]
  /\ request' = [request EXCEPT ![r] = IF @.step = "repin" THEN Idle ELSE At("flip")]
  /\ UNCHANGED <<product, bindings, runs, sent, strayed, edits>>

\* The constraint turns a second insert into an update; an update of a member
\* that was removed changes nothing.
WriteMember(r) ==
  /\ request[r].step \in {"insert", "repin"}
  /\ LET t == request[r].table
         there == IF request[r].step = "insert" THEN DOMAIN pins \cup {t} ELSE DOMAIN pins
     IN pins' = [u \in there |-> IF u = t THEN request[r].pin ELSE pins[u]]
  /\ request' = [q \in Requests |-> IF q = r THEN At("flip") ELSE [request[q] EXCEPT !.stale = TRUE]]
  /\ UNCHANGED <<product, bindings, runs, sent, strayed, edits>>

remove_member(r) ==
  /\ product.exists /\ request[r] = Idle /\ edits < MaxEdits
  /\ \E t \in DOMAIN pins : pins' = [u \in DOMAIN pins \ {t} |-> pins[u]]
  /\ request' = [q \in Requests |-> IF q = r THEN At("flip") ELSE [request[q] EXCEPT !.stale = TRUE]]
  /\ edits' = edits + 1
  /\ UNCHANGED <<product, bindings, runs, sent, strayed>>

_flip_to_draft(r) ==
  /\ request[r].step = "flip"
  /\ product' = IF product.exists THEN [product EXCEPT !.status = "draft"] ELSE product
  /\ Wrote(r, Idle)
  /\ UNCHANGED <<pins, bindings, sent, strayed, edits>>

-----------------------------------------------------------------------------
(* Review. *)

\* DraftRunGateService.enforce: a run of a member that has ended, started since
\* the product changed.  No members, or the setting off, and there is no gate.
enforce == \E enabled \in BOOLEAN : enabled /\ pins # <<>> => \E t \in DOMAIN pins : runs[t] = "done"

\* submit_data_product reads the product for the gate, and then once more to
\* submit it: the status of the second reading decides.
PassGate(r) ==
  /\ product.exists /\ request[r] = Idle /\ enforce
  /\ Reads(r, At("gated"))
  /\ UNCHANGED <<product, pins, bindings, runs, sent, strayed, edits>>

submit(r) ==
  /\ request[r].step = "gated"
  /\ product.exists /\ product.status # "approved"
  /\ Reads(r, [step |-> "submit", stale |-> FALSE, contents |-> Contents])
  /\ UNCHANGED <<product, pins, bindings, runs, sent, strayed, edits>>

\* _set_status writes to whatever the row has become.
Set(r, status, next) ==
  /\ product' = IF product.exists THEN [product EXCEPT !.status = status] ELSE product
  /\ Wrote(r, next)
  /\ strayed' = (strayed \/ request[r].stale)
  /\ UNCHANGED <<pins, bindings, edits>>

\* The approvals mode may let the submitter approve in the same request.
WriteSubmitted(r) ==
  /\ request[r].step = "submit"
  /\ \E approves \in BOOLEAN : Set(r, "pending_approval", IF approves THEN At("approve") ELSE Idle)
  /\ sent' = {request[r].contents}

approve(r) ==
  /\ product.exists /\ request[r].step \in {"idle", "approve"} /\ product.status = "pending_approval"
  /\ Reads(r, At("approved"))
  /\ UNCHANGED <<product, pins, bindings, runs, sent, strayed, edits>>

WriteApproved(r) ==
  /\ request[r].step = "approved"
  /\ product' = IF product.exists THEN [product EXCEPT !.status = "approved", !.published = TRUE] ELSE product
  /\ Wrote(r, Idle)
  /\ strayed' = (strayed \/ request[r].stale)
  /\ UNCHANGED <<pins, bindings, sent, edits>>

\* reject and revert: from the reading to the write.
decline(r) ==
  /\ product.exists /\ request[r] = Idle /\ product.status = "pending_approval"
  /\ \E status \in {"rejected", "draft"} : Reads(r, [step |-> "decline", stale |-> FALSE, status |-> status])
  /\ UNCHANGED <<product, pins, bindings, runs, sent, strayed, edits>>

WriteDeclined(r) ==
  request[r].step = "decline" /\ Set(r, request[r].status, Idle) /\ UNCHANGED sent

\* A request fails at any of its statements.
Fail(r) ==
  /\ request[r] # Idle
  /\ strayed' = (strayed \/ request[r].step = "flip")
  /\ Reads(r, Idle)
  /\ UNCHANGED <<product, pins, bindings, runs, sent, edits>>

display_status ==
  IF product.status # "draft" THEN product.status ELSE IF product.published THEN "modified" ELSE "draft"

-----------------------------------------------------------------------------
(* Runs, and the tables' own life. *)

\* What a run of the members runs: the checks as they stand, or an approved
\* version.
Plan(source) ==
  {<<t, IF source = "draft" THEN 0 ELSE IF pins[t] # Live THEN pins[t] ELSE bindings[t].version>> :
     t \in {u \in DOMAIN pins : source = "draft" \/ pins[u] # Live \/ bindings[u].version > 0}}

\* One member failing does not keep the others from running; without members
\* to run the request is refused.
run(source) ==
  /\ product.exists
  /\ \E submitted \in SUBSET Plan(source) :
       /\ \A job \in submitted : job[2] <= bindings[job[1]].version
       /\ runs' = [t \in Tables |-> IF \E job \in submitted : job[1] = t /\ runs[t] = "none" THEN "running" ELSE runs[t]]
  /\ runs' # runs
  /\ UNCHANGED <<product, pins, bindings, request, sent, strayed, edits>>

RunEnds(t) ==
  /\ runs[t] = "running" /\ runs' = [runs EXCEPT ![t] = "done"]
  /\ UNCHANGED <<product, pins, bindings, request, sent, strayed, edits>>

\* A table is approved, or edited and no longer is.
ReviewTable(t) ==
  /\ edits < MaxEdits /\ edits' = edits + 1
  /\ bindings' = [bindings EXCEPT ![t] =
       IF @.status = "approved" THEN [@ EXCEPT !.status = "draft"] ELSE [status |-> "approved", version |-> @.version + 1]]
  /\ UNCHANGED <<product, pins, runs, request, sent, strayed>>

Init ==
  /\ product = [exists |-> FALSE, status |-> "draft", published |-> FALSE, text |-> 0]
  /\ pins = <<>> /\ runs = NoRuns
  /\ bindings \in [Tables -> {[status |-> "draft", version |-> 0], [status |-> "approved", version |-> 1]}]
  /\ request = [r \in Requests |-> Idle]
  /\ sent = {} /\ strayed = FALSE /\ edits = 0

Next ==
  \/ \E r \in Requests :
       \/ create(r) \/ delete(r) \/ add_member(r) \/ WriteMember(r) \/ remove_member(r) \/ _flip_to_draft(r)
       \/ \E schedule_only \in BOOLEAN : update(r, schedule_only)
       \/ PassGate(r) \/ submit(r) \/ WriteSubmitted(r) \/ approve(r) \/ WriteApproved(r) \/ decline(r) \/ WriteDeclined(r) \/ Fail(r)
  \/ \E source \in {"draft", "approved"} : run(source)
  \/ \E t \in Tables : RunEnds(t) \/ ReviewTable(t)

Spec == Init /\ [][Next]_productVars

-----------------------------------------------------------------------------

\* What is up for review, or approved, is what was submitted, member by member
\* and pin by pin, unless a decision was written over a change it had not seen,
\* or is about to be, or an edit is half-way.
ReviewedAsSubmitted ==
  /\ product.exists /\ product.status \in {"pending_approval", "approved"}
  /\ ~strayed /\ \A r \in Requests : request[r].step # "flip"
  => sent = {Contents}

=============================================================================
