---------------------------- MODULE TokenRefresh ----------------------------
(***************************************************************************)
(* The connection pool to Lakebase (pg_executor.py).  The password of a    *)
(* login is a token that lives for an hour; a thread of the executor       *)
(* fetches another well before, and gives the process up to its supervisor *)
(* when it keeps failing.  A static password is never refreshed.           *)
(***************************************************************************)
EXTENDS Integers, FiniteSets

CONSTANTS
  Connections,                   \* slots of the pool
  TokenLife,                     \* how long a token is accepted at login
  _token_refresh_seconds,        \* wait after a success, and the life of a connection
  RetryLeast, RetryMost,         \* wait after a failure: the retry interval with its jitter
  _token_refresh_max_failures

\* An attempt that fails does so at once, and the whole budget of attempts fits
\* between the refresh and the end of the token: 50 minutes and twelve waits of
\* at most 13 seconds within the hour.
TokenAssumption ==
  /\ {TokenLife, _token_refresh_seconds, RetryLeast, RetryMost, _token_refresh_max_failures} \subseteq Nat \ {0}
  /\ RetryLeast <= RetryMost
  /\ _token_refresh_seconds + (_token_refresh_max_failures - 1) * RetryMost < TokenLife

VARIABLES
  process,      \* "up", "down" (exited, or did not come up) or "closed"
  static,       \* the platform bound a password of its own
  token,        \* the age of the token the holder has; the pool's kwargs carry the same
  failures,     \* _consecutive_refresh_failures
  waited,       \* how long the thread has been waiting
  pool,         \* per slot the age of its connection, or Free
  refused       \* history: a login was refused

tokenVars == <<process, static, token, failures, waited, pool, refused>>

Free == -1
NoConnections == [c \in Connections |-> Free]

-----------------------------------------------------------------------------

\* A bug: a failure is retried at the next regular interval.
AlwaysRegular == _token_refresh_seconds .. _token_refresh_seconds

\* _next_wait_seconds: the full interval after a success, the jittered retry
\* interval after a failure.
_next_wait_seconds == IF failures = 0 THEN _token_refresh_seconds .. _token_refresh_seconds ELSE RetryLeast .. RetryMost

WakesBy == CHOOSE n \in _next_wait_seconds : \A k \in _next_wait_seconds : k <= n
MayWake == \E n \in _next_wait_seconds : waited >= n

\* PgExecutor(): a token is fetched, and a first login made before the thread is
\* started; either may fail, and with it the start of the process.
Start ==
  /\ process = "down"
  /\ process' = "up" /\ token' = 0 /\ failures' = 0 /\ waited' = 0 /\ pool' = NoConnections
  /\ UNCHANGED <<static, refused>>

StartFails == process = "down" /\ UNCHANGED tokenVars

\* _token_refresh_loop
Refresh ==
  /\ process = "up" /\ ~static /\ MayWake
  /\ token' = 0 /\ failures' = 0 /\ waited' = 0
  /\ UNCHANGED <<process, static, pool, refused>>

\* The failure that is one too many exits the process, without a shutdown; its
\* connections go with it.
RefreshFails ==
  /\ process = "up" /\ ~static /\ MayWake
  /\ failures' = failures + 1 /\ waited' = 0
  /\ LET _escalate_refresh_failure == failures + 1 >= _token_refresh_max_failures
     IN /\ process' = IF _escalate_refresh_failure THEN "down" ELSE "up"
        /\ pool' = IF _escalate_refresh_failure THEN NoConnections ELSE pool
  /\ UNCHANGED <<static, token, refused>>

\* close: the pool is closed and the thread stops waiting.
close ==
  /\ process = "up" /\ process' = "closed" /\ pool' = NoConnections
  /\ UNCHANGED <<static, token, failures, waited, refused>>

\* A slot is filled by a login; the password counts then and not afterwards.
Login(c) ==
  /\ process = "up" /\ pool[c] = Free
  /\ IF static \/ token < TokenLife THEN pool' = [pool EXCEPT ![c] = 0] /\ UNCHANGED refused
     ELSE refused' = TRUE /\ UNCHANGED pool
  /\ UNCHANGED <<process, static, token, failures, waited>>

\* connection(): the check on checkout finds a connection the server has dropped
\* and discards it.
Dropped(c) ==
  /\ process = "up" /\ pool[c] # Free /\ pool' = [pool EXCEPT ![c] = Free]
  /\ UNCHANGED <<process, static, token, failures, waited, refused>>

\* A connection that has reached its lifetime is recycled.
Older(age) == IF age = Free \/ age + 1 >= _token_refresh_seconds THEN Free ELSE age + 1

\* Time passes, not past the moment the thread wakes.
Tick ==
  /\ process = "up" /\ (static \/ waited < WakesBy)
  /\ token' = IF static THEN token ELSE token + 1
  /\ waited' = IF static THEN waited ELSE waited + 1
  /\ pool' = [c \in Connections |-> Older(pool[c])]
  /\ UNCHANGED <<process, static, failures, refused>>

Init ==
  /\ process = "down" /\ static \in BOOLEAN /\ token = 0 /\ failures = 0 /\ waited = 0
  /\ pool = NoConnections /\ refused = FALSE

Next ==
  \/ Start \/ StartFails \/ Refresh \/ RefreshFails \/ close \/ Tick
  \/ \E c \in Connections : Login(c) \/ Dropped(c)

Spec == Init /\ [][Next]_tokenVars

-----------------------------------------------------------------------------

\* While the process is up, whatever the run of failures, its token is accepted:
\* no login is refused, and a process that cannot get another token is gone
\* before the last one runs out.
LoginsAreAccepted ==
  /\ ~refused
  /\ process = "up" /\ ~static => token < TokenLife
=============================================================================
