------------------------------ MODULE Registry ------------------------------
(***************************************************************************)
(* The rules registry: live rows dq_rules and frozen snapshots             *)
(* dq_rule_versions (services/registry_service.py), under concurrent HTTP  *)
(* requests (routes/v1/registry_rules.py).                                 *)
(*                                                                         *)
(* Every service method reads the row, decides on the copy and writes all  *)
(* columns back; only approve writes conditionally.  No transaction spans  *)
(* two statements, so each statement is a step and requests interleave     *)
(* between them.                                                           *)
(***************************************************************************)
EXTENDS Naturals, FiniteSets, TLC

CONSTANTS
  Rules,        \* rule ids; a fresh one is minted by every insert
  Contents,     \* mode, definition, polarity and tags of a rule
  Fingerprint,  \* Fingerprint[c]: the structural fingerprint of a content
  Users,
  Requests,     \* worker threads that serve requests
  Dialect,      \* "postgres" has UNIQUE (rule_id, version), "delta" has not
  FaultKinds,   \* "crash": a request dies between two statements;
                \* "snapshot": the insert after a committed approval fails
  NoRow,
  MaxVersion,   \* bound on versions
  MaxOps        \* bound on requests

ASSUME RegistryAssumption ==
  /\ Dialect \in {"postgres", "delta"}
  /\ Fingerprint \in [Contents -> Contents]
  /\ FaultKinds \subseteq {"crash", "snapshot"}
  /\ MaxVersion \in Nat /\ MaxOps \in Nat

VARIABLES
  row,    \* dq_rules: row[r], or NoRow
  snap,   \* dq_rule_versions: snap[r][v], the contents stored for a version
  saved,  \* history: contents an author saved for a rule
  minted, \* history: ids ever inserted
  lost,   \* history: published versions whose snapshot was never inserted
  req,    \* the requests being served
  ops     \* number of requests so far

vars == <<row, snap, saved, minted, lost, req, ops>>

-----------------------------------------------------------------------------
Statuses == {"draft", "pending_approval", "approved", "rejected", "deprecated"}

VALID_TRANSITIONS ==
  [ draft            |-> {"pending_approval"},
    pending_approval |-> {"approved", "rejected", "draft"},
    approved         |-> {"deprecated", "pending_approval"},
    rejected         |-> {},
    deprecated       |-> {"approved"} ]

EDITABLE_STATUSES == {"draft", "approved"}

\* updated_by; TRUE marks the approver of an automatic approval.
Signers == Users \X BOOLEAN

Rows == [status : Statuses, version : 0..MaxVersion, content : Contents, by : Signers]

ASSUME NoRowAssumption == NoRow \notin Rows

(***************************************************************************)
(* A route makes one service call or a chain of them.  match and reuse     *)
(* look for an existing rule before a create.                              *)
(***************************************************************************)
Chains ==
  { <<"create", "create">>,       \* create_registry_rule
    <<"match", "approve">>,       \* match_or_create_approved_rule
    <<"reuse", "create">>,        \* batch import, skip_duplicates
    <<"create", "submit">>,       \* batch import, also_submit
    <<"create", "approve">>,      \* batch import, auto_approve
    <<"seed", "seed">>,           \* seed_builtin_rules_if_absent
    <<"update", "update">>,
    <<"submit", "submit">>,
    <<"submit", "approve">>,      \* submit under an auto-approving mode
    <<"approve", "approve">>,
    <<"reject", "reject">>,
    <<"revoke", "revoke">>,
    <<"deprecate", "deprecate">>,
    <<"undeprecate", "undeprecate">>,
    <<"delete", "delete">> }

Following == [match |-> "create", reuse |-> "create", create |-> "submit", submit |-> "approve"]

Minting == {"match", "reuse", "create", "seed"}

Calls == {ch[1] : ch \in Chains} \cup {ch[2] : ch \in Chains}

Steps == {"begin", "compare", "read", "write", "readback", "snapshot"}

\* copy is the RegistryRule object of the call, to the status it will write,
\* auto the "(auto)" marker of the approver, hit whether the conditional
\* update found its row (the code does not learn it).
Idle == [call |-> "none"]

Busy == [call : Calls, last : Calls, step : Steps, rule : Rules, user : Users, auto : BOOLEAN,
         content : Contents, dup : BOOLEAN, hit : BOOLEAN, copy : Rows \cup {NoRow}, to : Statuses]

-----------------------------------------------------------------------------
Init ==
  /\ row = [r \in Rules |-> NoRow]
  /\ snap = [r \in Rules |-> [v \in 1..MaxVersion |-> {}]]
  /\ saved = [r \in Rules |-> {}]
  /\ minted = {}
  /\ lost = {}
  /\ req = [q \in Requests |-> Idle]
  /\ ops = 0

At(q, call, step) == req[q] # Idle /\ req[q].call = call /\ req[q].step = step

Exists(r) == row[r] # NoRow

SignerOf(q) == <<req[q].user, req[q].call = "approve" /\ req[q].auto>>

Goto(q, step) == req' = [req EXCEPT ![q].step = step]

\* The call raised: the route answers with an error.
Fail(q) == req' = [req EXCEPT ![q] = Idle]

\* The next call of a chain starts anew.
Onward(b) == [b EXCEPT !.call = Following[b.call], !.step = "begin", !.copy = NoRow]

\* The call returned: on to the next one of the chain, if any.
Return(q) == req' = [req EXCEPT ![q] = IF req[q].call = req[q].last THEN Idle ELSE Onward(req[q])]

\* The body of a request that has none.
AnyContent == CHOOSE c \in Contents : TRUE

\* A request arrives; a minting one gets a fresh id (uuid4), another names a
\* row that is on somebody's screen.
Arrive(q, ch, r, u, c, d) ==
  /\ req[q] = Idle
  /\ ops < MaxOps
  /\ IF ch[1] \in Minting THEN r \notin minted /\ \A p \in Requests : req[p] # Idle => req[p].rule # r
                          ELSE r \in minted
  /\ ch[1] \notin Minting \cup {"update"} => c = AnyContent
  /\ d => ch = <<"create", "create">>
  /\ ops' = ops + 1
  /\ req' = [req EXCEPT ![q] =
       [call |-> ch[1], last |-> ch[2], step |-> "begin", rule |-> r, user |-> u,
        auto |-> ch = <<"submit", "approve">>, content |-> c,
        dup |-> d \/ ch \in {<<"reuse", "create">>, <<"create", "submit">>, <<"create", "approve">>},
        hit |-> FALSE, copy |-> NoRow, to |-> "draft"]]
  /\ UNCHANGED <<row, snap, saved, minted, lost>>

SameFingerprint(c, statuses) ==
  {r \in Rules : Exists(r) /\ row[r].status \in statuses /\ Fingerprint[row[r].content] = Fingerprint[c]}

-----------------------------------------------------------------------------
(* Finding an existing rule *)

\* match_or_create_approved_rule: an approved rule is reused ...
MatchApproved(q) ==
  /\ At(q, "match", "begin")
  /\ IF SameFingerprint(req[q].content, {"approved"}) # {} THEN Fail(q) ELSE Goto(q, "compare")
  /\ UNCHANGED <<row, snap, saved, minted, lost, ops>>

\* ... and any other rule with the fingerprint is left alone.
MatchAny(q) ==
  /\ At(q, "match", "compare")
  /\ IF SameFingerprint(req[q].content, Statuses) # {} THEN Fail(q) ELSE Return(q)
  /\ UNCHANGED <<row, snap, saved, minted, lost, ops>>

\* Batch import with skip_duplicates: an active rule is reused.
Reuse(q) ==
  /\ At(q, "reuse", "begin")
  /\ IF SameFingerprint(req[q].content, {"draft", "pending_approval", "approved"}) # {}
     THEN Fail(q) ELSE Return(q)
  /\ UNCHANGED <<row, snap, saved, minted, lost, ops>>

\* create_rule: a published rule with the fingerprint blocks an interactive create.
CreateCheck(q) ==
  /\ At(q, "create", "begin")
  /\ IF SameFingerprint(req[q].content, {"approved"}) # {} /\ ~req[q].dup
     THEN Fail(q) ELSE Goto(q, "write")
  /\ UNCHANGED <<row, snap, saved, minted, lost, ops>>

Insert(q, status, version) ==
  /\ row' = [row EXCEPT ![req[q].rule] =
       [status |-> status, version |-> version, content |-> req[q].content, by |-> <<req[q].user, FALSE>>]]
  /\ minted' = minted \cup {req[q].rule}
  /\ saved' = [saved EXCEPT ![req[q].rule] = @ \cup {req[q].content}]
  /\ UNCHANGED <<snap, lost, ops>>

CreateInsert(q) ==
  /\ At(q, "create", "write")
  /\ Insert(q, "draft", 0)
  /\ Return(q)

\* seed_builtin_rules_if_absent: skip what has the fingerprint already.
SeedCheck(q) ==
  /\ At(q, "seed", "begin")
  /\ IF SameFingerprint(req[q].content, Statuses) # {} THEN Fail(q) ELSE Goto(q, "write")
  /\ UNCHANGED <<row, snap, saved, minted, lost, ops>>

\* seed_builtin_rule: the row is inserted approved at version 1.
SeedInsert(q) ==
  /\ At(q, "seed", "write")
  /\ MaxVersion >= 1
  /\ Insert(q, "approved", 1)
  /\ req' = [req EXCEPT ![q].step = "snapshot", ![q].hit = TRUE,
       ![q].copy = [status |-> "approved", version |-> 0, content |-> req[q].content,
                    by |-> <<req[q].user, FALSE>>]]

-----------------------------------------------------------------------------
(* Editing and transitions: read, decide on the copy, write every column *)

\* Mutant: the write inserts the row when it is gone.
UpsertRow(r, new) == row' = [row EXCEPT ![r] = new]

\* _update: UPDATE ... WHERE rule_id; no row, no effect.
Update(r, new) == row' = [row EXCEPT ![r] = IF Exists(r) THEN new ELSE NoRow]

\* update_draft reads and checks the status ...
EditRead(q) ==
  /\ At(q, "update", "begin")
  /\ IF Exists(req[q].rule) /\ row[req[q].rule].status \in EDITABLE_STATUSES
     THEN req' = [req EXCEPT ![q].step = "write", ![q].copy = row[req[q].rule]]
     ELSE Fail(q)
  /\ UNCHANGED <<row, snap, saved, minted, lost, ops>>

\* ... and writes the whole row, status and version as they were read.
EditWrite(q) ==
  /\ At(q, "update", "write")
  /\ Update(req[q].rule, [req[q].copy EXCEPT !.content = req[q].content, !.by = SignerOf(q)])
  /\ saved' = [saved EXCEPT ![req[q].rule] = IF Exists(req[q].rule) THEN @ \cup {req[q].content} ELSE @]
  /\ Return(q)
  /\ UNCHANGED <<snap, minted, lost, ops>>

\* submit: an approved rule needs its snapshot looked at first.
SubmitRead(q) ==
  /\ At(q, "submit", "begin")
  /\ IF Exists(req[q].rule)
     THEN req' = [req EXCEPT ![q].step = IF row[req[q].rule].status = "approved" THEN "compare" ELSE "read",
                             ![q].copy = row[req[q].rule], ![q].to = "pending_approval"]
     ELSE Fail(q)
  /\ UNCHANGED <<row, snap, saved, minted, lost, ops>>

\* _compute_modified: without a snapshot a rule does not count as modified.
Modified(copy, stored) == copy.version > 0 /\ stored # {} /\ copy.content \notin stored

SubmitCompare(q) ==
  /\ At(q, "submit", "compare")
  /\ LET copy == req[q].copy IN
     IF copy.version > 0 /\ Modified(copy, snap[req[q].rule][copy.version])
     THEN Goto(q, "read") ELSE Fail(q)
  /\ UNCHANGED <<row, snap, saved, minted, lost, ops>>

\* reject and revoke choose the target from a first read of the version.
ReviewRead(q) ==
  /\ At(q, "reject", "begin") \/ At(q, "revoke", "begin")
  /\ LET r == req[q].rule IN
     IF Exists(r) /\ (req[q].call = "revoke" => row[r].status = "pending_approval")
     THEN req' = [req EXCEPT ![q].step = "read",
                    ![q].to = IF row[r].version >= 1 THEN "approved"
                              ELSE IF req[q].call = "reject" THEN "rejected" ELSE "draft"]
     ELSE Fail(q)
  /\ UNCHANGED <<row, snap, saved, minted, lost, ops>>

\* deprecate and undeprecate go straight to _transition.
RetireBegin(q) ==
  /\ At(q, "deprecate", "begin") \/ At(q, "undeprecate", "begin")
  /\ req' = [req EXCEPT ![q].step = "read",
               ![q].to = IF req[q].call = "deprecate" THEN "deprecated" ELSE "approved"]
  /\ UNCHANGED <<row, snap, saved, minted, lost, ops>>

\* Mutant: _transition without its check of the current status.
UncheckedTransition(current, new) == TRUE

\* _check_transition
MayTransition(current, new) == new \in VALID_TRANSITIONS[current]

\* _transition reads the row again and checks it ...
TransitionRead(q) ==
  /\ req[q] # Idle /\ req[q].step = "read" /\ req[q].call # "delete"
  /\ IF Exists(req[q].rule) /\ MayTransition(row[req[q].rule].status, req[q].to)
     THEN req' = [req EXCEPT ![q].step = "write", ![q].copy = row[req[q].rule]]
     ELSE Fail(q)
  /\ UNCHANGED <<row, snap, saved, minted, lost, ops>>

Transitioning == {"submit", "reject", "revoke", "deprecate", "undeprecate"}

\* ... and writes the whole row with the new status.
TransitionWrite(q) ==
  /\ req[q] # Idle /\ req[q].step = "write" /\ req[q].call \in Transitioning
  /\ Update(req[q].rule, [req[q].copy EXCEPT !.status = req[q].to, !.by = SignerOf(q)])
  /\ Return(q)
  /\ UNCHANGED <<snap, saved, minted, lost, ops>>

\* delete: the route found no application; the service reads, then deletes.
DeleteRead(q) ==
  /\ At(q, "delete", "begin")
  /\ IF Exists(req[q].rule) THEN Goto(q, "read") ELSE Fail(q)
  /\ UNCHANGED <<row, snap, saved, minted, lost, ops>>

DeleteRow(q) ==
  /\ At(q, "delete", "read")
  /\ row' = [row EXCEPT ![req[q].rule] = NoRow]
  /\ Return(q)
  /\ UNCHANGED <<snap, saved, minted, lost, ops>>

-----------------------------------------------------------------------------
(* Publishing *)

\* approve reads the row and prepares version + 1.
ApproveRead(q) ==
  /\ At(q, "approve", "begin")
  /\ IF Exists(req[q].rule) /\ MayTransition(row[req[q].rule].status, "approved")
     THEN /\ row[req[q].rule].version < MaxVersion
          /\ req' = [req EXCEPT ![q].step = "write", ![q].copy = row[req[q].rule]]
     ELSE Fail(q)
  /\ UNCHANGED <<row, snap, saved, minted, lost, ops>>

\* Mutant: approval writes a status the registry does not know.
PublishedUnderAnotherName(q) ==
  [req[q].copy EXCEPT !.status = "published", !.version = @ + 1, !.by = SignerOf(q)]

\* The published form of the copy an approval read.
Published(q) ==
  [req[q].copy EXCEPT !.status = "approved", !.version = @ + 1, !.by = SignerOf(q)]

\* _update_approve_cas: the WHERE clause names version and status ...
ApproveWrite(q) ==
  /\ At(q, "approve", "write")
  /\ LET r == req[q].rule
         hit == Exists(r) /\ row[r].version = req[q].copy.version /\ row[r].status = req[q].copy.status
     IN /\ row' = IF hit THEN [row EXCEPT ![r] = Published(q)] ELSE row
        /\ req' = [req EXCEPT ![q].step = "readback", ![q].hit = hit]
  /\ UNCHANGED <<snap, saved, minted, lost, ops>>

\* A version that was published by q and whose snapshot q will not insert.
Forsake(q) ==
  lost' = IF req[q].hit THEN lost \cup {<<req[q].rule, Published(q).version>>} ELSE lost

\* ... and the outcome is read back by version, status and user.  A change by
\* another request in between makes a committed approval look like a lost race.
ApproveReadBack(q) ==
  /\ At(q, "approve", "readback")
  /\ LET r == req[q].rule IN
     IF /\ Exists(r)
        /\ row[r].version = Published(q).version
        /\ row[r].status = "approved"
        /\ row[r].by = SignerOf(q)
     THEN Goto(q, "snapshot") /\ UNCHANGED lost
     ELSE Fail(q) /\ Forsake(q)
  /\ UNCHANGED <<row, snap, saved, minted, ops>>

\* Mutant: the snapshot replaces one that exists (INSERT ... ON CONFLICT UPDATE).
OverwritingInsert(stored, c) == {c}

\* Mutant: the snapshot is stored under the version before the bump.
InsertBeforeBump(r, v, c) == [snap EXCEPT ![r][IF v > 1 THEN v - 1 ELSE v] = @ \cup {c}]

\* The unique constraint keeps the row that is there; a Delta table takes both.
InsertRow(stored, c) == IF stored # {} /\ Dialect = "postgres" THEN stored ELSE stored \cup {c}

InsertSnapshot(r, v, c) == [snap EXCEPT ![r][v] = InsertRow(@, c)]

\* _write_version_snapshot, a statement of its own after the committed row.
WriteSnapshot(q) ==
  /\ req[q] # Idle /\ req[q].step = "snapshot"
  /\ snap' = InsertSnapshot(req[q].rule, Published(q).version, req[q].copy.content)
  /\ Return(q)
  /\ UNCHANGED <<row, saved, minted, lost, ops>>

\* The insert fails, or the process dies, after the row was committed.
SnapshotFails(q) ==
  /\ "snapshot" \in FaultKinds
  /\ req[q] # Idle /\ req[q].step \in {"readback", "snapshot"}
  /\ Forsake(q)
  /\ Fail(q)
  /\ UNCHANGED <<row, snap, saved, minted, ops>>

\* The process dies, or a statement raises, before a request's next statement.
Crash(q) ==
  /\ "crash" \in FaultKinds
  /\ req[q] # Idle /\ req[q].step \notin {"snapshot", "readback"}
  /\ Fail(q)
  /\ UNCHANGED <<row, snap, saved, minted, lost, ops>>

-----------------------------------------------------------------------------
Serve(q) ==
  \/ MatchApproved(q) \/ MatchAny(q) \/ Reuse(q) \/ CreateCheck(q) \/ CreateInsert(q)
  \/ SeedCheck(q) \/ SeedInsert(q)
  \/ EditRead(q) \/ EditWrite(q)
  \/ SubmitRead(q) \/ SubmitCompare(q) \/ ReviewRead(q) \/ RetireBegin(q)
  \/ TransitionRead(q) \/ TransitionWrite(q) \/ DeleteRead(q) \/ DeleteRow(q)
  \/ ApproveRead(q) \/ ApproveWrite(q) \/ ApproveReadBack(q) \/ WriteSnapshot(q)

Next ==
  \E q \in Requests :
    \/ \E ch \in Chains, r \in Rules, u \in Users, c \in Contents, d \in BOOLEAN : Arrive(q, ch, r, u, c, d)
    \/ Serve(q)
    \/ SnapshotFails(q)
    \/ Crash(q)

Spec == Init /\ [][Next]_vars

-----------------------------------------------------------------------------
(* Properties *)

\* The values the variables may take.
TypeOK ==
  /\ row \in [Rules -> Rows \cup {NoRow}]
  /\ snap \in [Rules -> [1..MaxVersion -> SUBSET Contents]]
  /\ saved \in [Rules -> SUBSET Contents]
  /\ minted \subseteq Rules
  /\ lost \subseteq Rules \X (1..MaxVersion)
  /\ req \in [Requests -> Busy \cup {Idle}]
  /\ ops \in 0..MaxOps

\* A request between its committed row and its snapshot.
Publishing(r, v) ==
  \E q \in Requests :
    /\ req[q] # Idle /\ req[q].step \in {"readback", "snapshot"} /\ req[q].hit
    /\ req[q].rule = r /\ Published(q).version = v

\* Whatever version a live row shows, every version up to it has its
\* snapshot, is about to get it, or lost it to a failed insert or a
\* misread outcome (approve, _update_approve_cas, _write_version_snapshot):
\* no stale write of another request (_update) can name a version that was
\* never published.
PublishedHasSnapshot ==
  \A r \in Rules : Exists(r) =>
    \A v \in 1..row[r].version : snap[r][v] # {} \/ Publishing(r, v) \/ <<r, v>> \in lost

\* A deleted rule does not come back, although requests that read it before
\* the deletion still write their copy of the row (delete against _update and
\* _update_approve_cas).
DeletedStaysDeleted ==
  [][\A r \in minted : ~Exists(r) => ~Exists(r)']_vars

\* A change of a row that obeys the life cycle: an edit in an editable
\* status, a valid transition, or a publication of the content at hand.
Lawful(old, new) ==
  \/ old.status = new.status /\ old.status \in EDITABLE_STATUSES /\ old.version = new.version
  \/ new.status \in VALID_TRANSITIONS[old.status] /\ old.version = new.version /\ old.content = new.content
  \/ /\ old.status \in {"pending_approval", "deprecated"} /\ new.status = "approved"
     /\ new.version = old.version + 1 /\ old.content = new.content

\* Only a request whose copy of the row is out of date can change a rule
\* against its life cycle: every check made on a copy (update_draft,
\* _check_transition, approve) holds of the row it is written over unless
\* another request wrote in between.
OnlyStaleCopiesBreakTheLifeCycle ==
  [][\A r \in Rules :
       Exists(r) /\ Exists(r)' /\ row[r] # row'[r] =>
         \/ Lawful(row[r], row'[r])
         \/ \E q \in Requests : req[q] # Idle /\ req[q].step = "write" /\ req[q].rule = r /\ req[q].copy # row[r]
    ]_vars

Store == INSTANCE VersionStore

\* The registry keeps what the readers of dq_rule_versions rely on: a version
\* is written once, with a content that was saved for the rule
\* (_write_version_snapshot under the unique constraint).
ImplementsVersionStore == Store!Spec

\* What approve promises: every version a rule shows was frozen, or its
\* approval is still running.
EveryApprovalIsFrozen ==
  \A r \in Rules : Exists(r) =>
    \A v \in 1..row[r].version : snap[r][v] # {} \/ Publishing(r, v)

-----------------------------------------------------------------------------
(* For small instances. *)

\* Every content has its own fingerprint.
OwnFingerprint == [c \in Contents |-> c]

\* Worker threads are interchangeable, and so are users and rule ids.
Alike == Permutations(Requests) \cup Permutations(Users) \cup Permutations(Rules)

=============================================================================
