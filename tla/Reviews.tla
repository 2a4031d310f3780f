------------------------------ MODULE Reviews -------------------------------
(***************************************************************************)
(* Review statuses of runs (services/review_status_service.py,             *)
(* routes/v1/review_status.py): administrators keep the list of statuses,  *)
(* reviewers give one to a run or take it away; each change is written     *)
(* first and then appended to a history that is written on best effort.    *)
(***************************************************************************)
EXTENDS Naturals, Sequences, SequencesExt

CONSTANTS
  Reviewers,
  Statuses,
  None,         \* NULL
  MaxReviews    \* bound on reviews and changes of the list

\* Assumed: None \notin Statuses /\ Statuses # {} /\ MaxReviews \in Nat

VARIABLES
  listed,       \* run_review_statuses_v1: the values and the default, or None
  status,       \* dq_run_review_status of the run, or None
  history,      \* dq_run_review_status_history of the run
  reviewer,     \* per reviewer the review under way
  missed,       \* history: a change that was not appended, or an overlap
  reviews

reviewsVars == <<listed, status, history, reviewer, missed, reviews>>

Seed == [values |-> Statuses, default |-> CHOOSE s \in Statuses : TRUE]
Idle == [step |-> "idle"]

-----------------------------------------------------------------------------

\* get_run_review_statuses: the statuses that come with the application until
\* others are saved.
get_run_review_statuses == IF listed = None THEN Seed ELSE listed
get_default_run_review_status == get_run_review_statuses.default

\* get_effective: a run nobody gave a status has the default of today.
get_effective == IF status # None THEN status ELSE get_default_run_review_status

seed_run_review_statuses_if_absent ==
  /\ listed = None /\ listed' = Seed
  /\ UNCHANGED <<status, history, reviewer, missed, reviews>>

\* save_run_review_statuses: at least one, and exactly one default.  Runs keep a
\* status that is dropped from the list.
save_run_review_statuses ==
  /\ reviews < MaxReviews /\ reviews' = reviews + 1
  /\ \E values \in SUBSET Statuses : \E default \in values : listed' = [values |-> values, default |-> default]
  /\ UNCHANGED <<status, history, reviewer, missed>>

Overlaps(r) == \E q \in Reviewers \ {r} : reviewer[q] # Idle

\* set_status, clear_status: what the run showed is read before the change.
\* A bug: the previous status is read once the change is made.
BeginLate(r, change) ==
  /\ reviewer[r] = Idle /\ reviews < MaxReviews /\ reviews' = reviews + 1
  /\ reviewer' = [reviewer EXCEPT ![r] = [step |-> "write", status |-> change, previous |-> change,
                                          entry |-> IF change = None THEN get_default_run_review_status ELSE change]]
  /\ missed' = (missed \/ Overlaps(r))
  /\ UNCHANGED <<listed, status, history>>
Begin(r, change) ==
  /\ reviewer[r] = Idle /\ reviews < MaxReviews /\ reviews' = reviews + 1
  /\ reviewer' = [reviewer EXCEPT ![r] = [step |-> "write", status |-> change, previous |-> get_effective,
                                          entry |-> IF change = None THEN get_default_run_review_status ELSE change]]
  /\ missed' = (missed \/ Overlaps(r))
  /\ UNCHANGED <<listed, status, history>>

set_status(r) == \E s \in get_run_review_statuses.values : Begin(r, s)
clear_status(r) == Begin(r, None)

WriteStatus(r) ==
  /\ reviewer[r].step = "write"
  /\ status' = reviewer[r].status
  /\ reviewer' = [reviewer EXCEPT ![r].step = "append"]
  /\ UNCHANGED <<listed, history, missed, reviews>>

\* _append_history: a failure is logged and the review stands.
_append_history(r) ==
  /\ reviewer[r].step = "append"
  /\ \/ history' = Append(history, [status |-> reviewer[r].entry, previous |-> reviewer[r].previous,
                                    cleared |-> reviewer[r].status = None]) /\ UNCHANGED missed
     \/ missed' = TRUE /\ UNCHANGED history
  /\ reviewer' = [reviewer EXCEPT ![r] = Idle]
  /\ UNCHANGED <<listed, status, reviews>>

\* The change itself failed: the reviewer is told.
Fail(r) ==
  /\ reviewer[r].step = "write"
  /\ reviewer' = [reviewer EXCEPT ![r] = Idle]
  /\ UNCHANGED <<listed, status, history, missed, reviews>>

-----------------------------------------------------------------------------

Init ==
  /\ listed = None /\ status = None /\ history = <<>>
  /\ reviewer = [r \in Reviewers |-> Idle] /\ missed = FALSE /\ reviews = 0

Next ==
  \/ seed_run_review_statuses_if_absent \/ save_run_review_statuses
  \/ \E r \in Reviewers : set_status(r) \/ clear_status(r) \/ WriteStatus(r) \/ _append_history(r) \/ Fail(r)

Spec == Init /\ [][Next]_reviewsVars

-----------------------------------------------------------------------------

\* The history tells the story of the run's status whatever happens to the list
\* meanwhile: its last entry is the status the run was given, and each entry
\* starts where the one before it ended, unless that one gave the status up or
\* reviews overlapped or were not recorded.
HistoryTellsTheStory ==
  ~missed =>
    /\ (\A r \in Reviewers : reviewer[r] = Idle) =>
         IF history = <<>> THEN status = None
         ELSE status = IF Last(history).cleared THEN None ELSE Last(history).status
    /\ \A i \in 2..Len(history) :
         ~history[i - 1].cleared => history[i].previous = history[i - 1].status
\* A run that was given no status shows one that is on the list.
DefaultIsListed == get_default_run_review_status \in get_run_review_statuses.values
HistoryHolds == HistoryTellsTheStory /\ DefaultIsListed

=============================================================================
