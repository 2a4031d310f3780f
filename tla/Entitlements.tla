---------------------------- MODULE Entitlements ----------------------------
(***************************************************************************)
(* Who is shown the failing rows of a table                                *)
(* (services/entitlement_service.py): users for whom a request asked, in   *)
(* turn, whether they can select from it and whether it is unfiltered, and *)
(* recorded it within TTL.  Unity Catalog is external: privileges and      *)
(* filters come and go between the two questions and the record.           *)
(***************************************************************************)
EXTENDS Integers

CONSTANTS Users,
          Requests, \* the requests under way, of the verify endpoint or the failed rows
          TTL,      \* for how long a verified entitlement stands
          MaxTime

EntitlementAssumption == TTL \in Nat \ {0} /\ MaxTime \in Nat

VARIABLES readable,   \* users who can select from the table now
          filtered,   \* the table has row filters or column masks
          lastSelect, \* history: when each user last could select from it
          lastOpen,   \* history: when it last had no filters or masks
          verified,   \* dq_user_table_entitlements: when, or -1
          now,
          asking,     \* how far each request has come
          begun       \* history: when the request began that each record is of

entitlementVars == <<readable, filtered, lastSelect, lastOpen, verified, now, asking, begun>>

Idle == [at |-> "idle"]

Init ==
  /\ readable \in SUBSET Users /\ filtered \in BOOLEAN
  /\ lastSelect = [u \in Users |-> IF u \in readable THEN 0 ELSE -1]
  /\ lastOpen = IF filtered THEN -1 ELSE 0
  /\ verified = [u \in Users |-> -1] /\ now = 0
  /\ asking = [r \in Requests |-> Idle] /\ begun = [u \in Users |-> -1]

\* The view keeps the rows whose entitlement is not older than TTL.
Visible(user) == verified[user] # -1 /\ now - verified[user] < TTL

\* Fresh entitlements are neither probed nor renewed, unless they cannot be
\* read.  The endpoint of the failed rows asks in any case.
verify_and_record(r, user) ==
  /\ asking[r] = Idle
  /\ asking' = [asking EXCEPT ![r] = [at |-> "asked", user |-> user, since |-> now]]
  /\ UNCHANGED <<readable, filtered, lastSelect, lastOpen, verified, now, begun>>

\* A step of a request: it goes on when the answer is yes; it ends when it is no
\* or there is none.
Answered(r, from, yes, to) ==
  /\ asking[r].at = from
  /\ \/ yes /\ asking' = [asking EXCEPT ![r].at = to]
     \/ asking' = [asking EXCEPT ![r] = Idle]
  /\ UNCHANGED <<readable, filtered, lastSelect, lastOpen, verified, now, begun>>

\* A bug: an entitlement that is fresh is renewed without asking again.
SlidingWindow(r) ==
  /\ asking[r] # Idle
  /\ Answered(r, "asked", Visible(asking[r].user) \/ asking[r].user \in readable, "selected")

user_can_select(r) ==
  /\ asking[r] # Idle
  /\ Answered(r, "asked", asking[r].user \in readable, "selected")

has_fine_grained_access_control(r) == Answered(r, "selected", ~filtered, "unfiltered")

\* The time of a record is the time at which it is written.  The write may fail.
record_entitlement(r) ==
  /\ asking[r].at = "unfiltered"
  /\ \/ /\ verified' = [verified EXCEPT ![asking[r].user] = now]
        /\ begun' = [begun EXCEPT ![asking[r].user] = asking[r].since]
     \/ UNCHANGED <<verified, begun>>
  /\ asking' = [asking EXCEPT ![r] = Idle]
  /\ UNCHANGED <<readable, filtered, lastSelect, lastOpen, now>>

\* What was so at time t is the latest that was.
Witnessed(can, masked, t) ==
  /\ lastSelect' = [u \in Users |-> IF u \in can THEN t ELSE lastSelect[u]]
  /\ lastOpen' = IF masked THEN lastOpen ELSE t

Govern(user) ==
  /\ \/ readable' \in {readable \cup {user}, readable \ {user}} /\ UNCHANGED filtered
     \/ filtered' = ~filtered /\ UNCHANGED readable
  /\ Witnessed(readable', filtered', now)
  /\ UNCHANGED <<verified, now, asking, begun>>

Tick ==
  /\ now < MaxTime /\ now' = now + 1
  /\ Witnessed(readable, filtered, now')
  /\ UNCHANGED <<readable, filtered, verified, asking, begun>>

Next ==
  \/ \E r \in Requests :
       \/ \E user \in Users : verify_and_record(r, user)
       \/ user_can_select(r) \/ has_fine_grained_access_control(r) \/ record_entitlement(r)
  \/ \E user \in Users : Govern(user)
  \/ Tick

Spec == Init /\ [][Next]_entitlementVars

-----------------------------------------------------------------------------

\* Failing rows are shown to a user only within TTL of a record, and only if
\* the user could select from the table, and it was unfiltered, at some time
\* since the request behind that record began: whatever other requests, changes
\* of privileges and failures come in between.  The two need not have held at
\* the same time: each is asked once.
ShownToRecentReaders ==
  \A user \in Users : Visible(user) =>
    /\ begun[user] # -1 /\ begun[user] <= verified[user]
    /\ lastSelect[user] >= begun[user] /\ lastOpen >= begun[user]
=============================================================================
