----------------------------- MODULE GenieSpace -----------------------------
(***************************************************************************)
(* The Genie space of Studio (services/genie_space_service.py): every      *)
(* start, and a database reset, ensures that there is one with the content *)
(* of this release.  What is known of it are three settings, written one   *)
(* by one; the space itself is behind an API that may fail or not answer,  *)
(* and the process may stop between any two steps.                         *)
(***************************************************************************)
EXTENDS Naturals, Sequences, FiniteSets, FiniteSetsExt

CONSTANTS
  None,
  MaxSpaces, MaxFaults, MaxChanges     \* bounds

GenieAssumption == None \notin Nat

VARIABLES
  spaces,   \* the spaces that bear the title, in order of creation; None once deleted
  stored,   \* the settings: id, hash of the content, status
  world,    \* the content of this release, the warehouse that is configured, whether the app may use it
  ensure,   \* the call under way: its step and locals
  blind,    \* lookups that missed a space of this deployment
  budget    \* faults and changes that were met

genieVars == <<spaces, stored, world, ensure, blind, budget>>

Exists(id) == id # None /\ spaces[id] # None
Own == {id \in DOMAIN spaces : Exists(id) /\ spaces[id].mine}

Idle == [step |-> "idle", existing |-> None, hash |-> None, warehouse |-> None, body |-> {}]

\* One space of another deployment bears the title, too.
Init ==
  /\ spaces = <<[mine |-> FALSE, content |-> 1, warehouse |-> "w1", shared |-> FALSE]>>
  /\ stored = [id |-> None, hash |-> None, status |-> None]
  /\ world \in [release : {1}, warehouse : {"w1"}, usable : BOOLEAN, client_id : BOOLEAN, audience : BOOLEAN]
  /\ ensure = Idle /\ blind = 0 /\ budget = [faults |-> 0, changes |-> 0]

-----------------------------------------------------------------------------
(* One call of ensure_dq_genie_space *)

At(step) == ensure.step = step
To(step) == ensure' = [ensure EXCEPT !.step = step]
Fault == budget.faults < MaxFaults /\ budget' = [budget EXCEPT !.faults = @ + 1]
Save(field, value) == stored' = [stored EXCEPT ![field] = value]
Return == ensure' = Idle

_ensure_genie_space ==
  /\ At("idle")
  /\ ensure' = [Idle EXCEPT !.step = IF stored.id = None THEN "search" ELSE "verify", !.existing = stored.id, !.hash = stored.hash]
  /\ UNCHANGED <<spaces, stored, world, blind, budget>>

\* Only an answer that it is not there gives the stored space up; when there is
\* no answer the call ends with it.
Verify ==
  /\ At("verify")
  /\ \/ /\ Exists(ensure.existing)
        /\ ensure' = [ensure EXCEPT !.step = "compare", !.warehouse = spaces[ensure.existing].warehouse]
        /\ UNCHANGED budget
     \/ /\ ~Exists(ensure.existing)
        /\ ensure' = [ensure EXCEPT !.step = "search", !.existing = None]
        /\ UNCHANGED budget
     \/ Return /\ Fault
  /\ UNCHANGED <<spaces, stored, world, blind>>

\* A bug: any space with the title is taken over.
OfThatTitle(id) == Exists(id)

\* The spaces that may be taken over are those below the folder of this client.
OfThisDeployment(id) == spaces[id].mine

\* The newest space of this deployment among those that could be listed and read;
\* the listing is cut, and some may refuse to be read.
_find_space_by_title ==
  /\ At("search") /\ world.client_id
  /\ \E missed \in SUBSET Own :
       LET found == {id \in DOMAIN spaces \ missed : Exists(id) /\ OfThisDeployment(id)}
       IN /\ IF missed = {} THEN UNCHANGED budget ELSE Fault
          /\ blind' = IF missed # {} /\ found = {} THEN blind + 1 ELSE blind
          /\ ensure' = IF found = {} THEN [ensure EXCEPT !.step = "create"]
                       ELSE LET id == Max(found) IN
                            [ensure EXCEPT !.step = "adopt", !.existing = id, !.hash = None, !.warehouse = spaces[id].warehouse]
  /\ Save("status", "provisioning")
  /\ UNCHANGED <<spaces, world>>

\* Without a client id there is no folder of this deployment's own.
NoParentPath ==
  /\ At("search") /\ ~world.client_id
  /\ Save("status", "error") /\ Return
  /\ UNCHANGED <<spaces, world, blind, budget>>

\* A space that was found has no content that is known: its hash goes first.
Adopt ==
  /\ \/ At("adopt") /\ Save("hash", None) /\ To("adopt_id")
     \/ At("adopt_id") /\ Save("id", ensure.existing) /\ To("compare")
  /\ UNCHANGED <<spaces, world, blind, budget>>

\* The answer may get lost.
Create ==
  /\ At("create") /\ Len(spaces) < MaxSpaces
  /\ \E made, told \in BOOLEAN :
       /\ told => made
       /\ IF told THEN UNCHANGED budget ELSE Fault
       /\ spaces' = IF ~made THEN spaces
            ELSE Append(spaces, [mine |-> TRUE, content |-> world.release, warehouse |-> world.warehouse, shared |-> FALSE])
       /\ IF told THEN ensure' = [ensure EXCEPT !.step = "created", !.existing = Len(spaces')] /\ UNCHANGED stored
          ELSE Save("status", "error") /\ Return
  /\ UNCHANGED <<world, blind>>

Created ==
  /\ \/ At("created") /\ Save("id", ensure.existing) /\ To("created_hash")
     \/ At("created_hash") /\ Save("hash", world.release) /\ To("created_ready")
     \/ At("created_ready") /\ Save("status", "ready") /\ To("share")
  /\ UNCHANGED <<spaces, world, blind, budget>>

\* What is not as it should be; a warehouse the app may use, as the ACL or a
\* statement shows.
Compare ==
  /\ At("compare")
  /\ LET body == (IF ensure.hash # world.release THEN {"content"} ELSE {})
                   \cup (IF ensure.warehouse # world.warehouse /\ world.usable THEN {"warehouse"} ELSE {})
     IN IF body = {} THEN To("share") /\ UNCHANGED stored
        ELSE ensure' = [ensure EXCEPT !.step = "update", !.body = body] /\ Save("status", "provisioning")
  /\ UNCHANGED <<spaces, world, blind, budget>>

\* The hash of the new content is stored if the space was seen to take it.
HashAfter(updated) == IF updated /\ "content" \in ensure.body THEN "hash" ELSE "ready"

\* PATCH: it fails, or its answer does, or the space is gone by now.
_update_space ==
  /\ At("update")
  /\ \E done, told \in BOOLEAN :
       /\ done => Exists(ensure.existing)
       /\ told => done
       /\ IF told \/ ~Exists(ensure.existing) THEN UNCHANGED budget ELSE Fault
       /\ spaces' = IF ~done THEN spaces
            ELSE [spaces EXCEPT ![ensure.existing].content = IF "content" \in ensure.body THEN world.release ELSE @,
                                ![ensure.existing].warehouse = IF "warehouse" \in ensure.body THEN world.warehouse ELSE @]
       /\ To(HashAfter(told))
  /\ UNCHANGED <<stored, world, blind>>

Updated ==
  /\ \/ At("hash") /\ Save("hash", world.release) /\ To("ready")
     \/ At("ready") /\ Save("status", "ready") /\ To("share")
  /\ UNCHANGED <<spaces, world, blind, budget>>

\* The configured groups may chat; nobody's access is taken away.
_reconcile_audience ==
  /\ At("share") /\ Return
  /\ \E granted \in BOOLEAN :
       /\ granted => world.audience /\ Exists(ensure.existing)
       /\ spaces' = IF granted THEN [spaces EXCEPT ![ensure.existing].shared = TRUE] ELSE spaces
  /\ UNCHANGED <<stored, world, blind, budget>>

\* Whatever else is raised ends the call, with the status if that can be saved;
\* a stop of the process does not even try.
Raise ==
  /\ ~At("idle") /\ Fault /\ Return
  /\ stored' \in {stored, [stored EXCEPT !.status = "error"]}
  /\ UNCHANGED <<spaces, world, blind>>

-----------------------------------------------------------------------------
(* Meanwhile *)

Change == budget.changes < MaxChanges /\ budget' = [budget EXCEPT !.changes = @ + 1]

\* An administrator deletes a space, or configures another warehouse.
DeleteSpace ==
  /\ Change /\ \E id \in Own : spaces' = [spaces EXCEPT ![id] = None]
  /\ UNCHANGED <<stored, world, ensure, blind>>

\* A release or another configuration comes with a start.
Deploy ==
  /\ At("idle") /\ Change
  /\ world' \in {[world EXCEPT !.release = @ + 1], [world EXCEPT !.warehouse = "w2"]}
  /\ UNCHANGED <<spaces, stored, ensure, blind>>

\* A reset of the database forgets the settings; its own call follows.
ResetDatabase ==
  /\ At("idle") /\ Change
  /\ stored' = [id |-> None, hash |-> None, status |-> None]
  /\ UNCHANGED <<spaces, world, ensure, blind>>

Next ==
  \/ _ensure_genie_space \/ Verify \/ _find_space_by_title \/ NoParentPath \/ Adopt \/ Create \/ Created
  \/ Compare \/ _update_space \/ Updated \/ _reconcile_audience \/ Raise
  \/ DeleteSpace \/ Deploy \/ ResetDatabase

Spec == Init /\ [][Next]_genieVars

-----------------------------------------------------------------------------
(* Properties *)

\* A space whose stored hash is that of the release has its content, or no start
\* would ever bring it up to date; the order of Adopt, and HashAfter.
HashTellsTheContent == Exists(stored.id) /\ stored.hash = world.release => spaces[stored.id].content = world.release

\* The settings never name the space of another deployment, and a space is given
\* up only when it is gone; _find_space_by_title, Verify.
OwnSpaceIsKept ==
  /\ Exists(stored.id) => spaces[stored.id].mine
  /\ At("search") \/ At("create") => ~Exists(stored.id)

\* Starts, resets, crashes and lost answers do not pile up spaces: a second one
\* needs a lookup that missed the first.
OneSpace == Cardinality(Own) <= 1 + blind

GenieSpaceIsKept == HashTellsTheContent /\ OwnSpaceIsKept /\ OneSpace
=============================================================================
