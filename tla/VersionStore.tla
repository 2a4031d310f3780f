---------------------------- MODULE VersionStore ----------------------------
(***************************************************************************)
(* What the consumers of dq_rule_versions rely on: the materializer, the   *)
(* frozen versions of monitored tables and the pins of applied rules all   *)
(* resolve a pair (rule, version) and expect the same content for ever.    *)
(* A version of a rule is a write-once register, and what is written was   *)
(* saved by an author for that rule before.  Registry implements this;     *)
(* Binding runs against it.                                                *)
(***************************************************************************)
EXTENDS Naturals

CONSTANTS Rules, Contents, MaxVersion

VARIABLES
  saved,   \* saved[r]: the contents ever saved for rule r
  snap     \* snap[r][v]: the contents stored for version v, at most one

Init ==
  /\ saved = [r \in Rules |-> {}]
  /\ snap = [r \in Rules |-> [v \in 1..MaxVersion |-> {}]]

Save(r, c) ==
  /\ saved' = [saved EXCEPT ![r] = @ \cup {c}]
  /\ UNCHANGED snap

\* A version is written once, with a content the rule really had.
Publish(r, v, c) ==
  /\ c \in saved[r]
  /\ snap[r][v] = {}
  /\ snap' = [snap EXCEPT ![r][v] = {c}]
  /\ UNCHANGED saved

Next ==
  \E r \in Rules, c \in Contents :
    \/ Save(r, c)
    \/ \E v \in 1..MaxVersion : Publish(r, v, c)

Spec == Init /\ [][Next]_<<saved, snap>>

=============================================================================
