------------------------------ MODULE MCParts -------------------------------
(***************************************************************************)
(* The library, and the services of Studio beside its scheduler, runs and  *)
(* registry, one component per value of part, with small constants.  A     *)
(* component has its state in the variables v1 .. v8, or, where it is pure, *)
(* its input and output in v1 and v2.                                      *)
(***************************************************************************)
EXTENDS Integers, TLC

CONSTANTS None, Pending, Malformed, Raised, Refused, Mistyped, Plain, Unbounded, ColumnY, NoRule, Actors, Parts

VARIABLES part, v1, v2, v3, v4, v5, v6, v7, v8

-----------------------------------------------------------------------------
(* Modules with theorems bring the modules they are about, so that the      *)
(* theorems hold of the same instances.                                    *)

\* ScoreRefresh, TokenRefresh, Settings, GenieSpace, Products, Reviews, Access,
\* Entitlements, ScheduleGrants and AiDrafts.
Studio == INSTANCE StudioProofs WITH
  Runs <- {"q", "r"}, Tables <- {"s", "t"}, Monitored <- {"s"}, TableOf <- [x \in {"q", "r"} |-> IF x = "q" THEN "s" ELSE "t"],
  _RUN_SET_SWEEP_MAX_RUNS <- 1, _JOB_STATE_GRACE <- 1, _SCORE_REFRESH_TTL <- 1, _SCORE_RECONCILE_MAX_ATTEMPTS <- 1,
  run <- v1, pending <- v2, seen <- v3, seen_active <- v4, missing_row <- v5, reconcile <- v6, cached <- v7, givenUp <- v8,
  Connections <- Actors, TokenLife <- 6, _token_refresh_seconds <- 3, RetryLeast <- 1, RetryMost <- 2, _token_refresh_max_failures <- 2,
  process <- v1, static <- v2, token <- v3, failures <- v4, waited <- v5, pool <- v6, refused <- v7,
  Admins <- Actors, Reserved <- {"severity"}, Own <- {"owner"}, MAX_CUSTOM_PRESETS <- 1, PROFILER_SAMPLE_RECORDS_MAX <- 1000,
  RunNames <- {"m", "n"}, MaxSaves <- 2,
  page <- v1, rows <- v2, labels <- v3, branding <- v4, stored <- v5, admin <- v6, strayed <- v7, saves <- v8,
  MaxSpaces <- 4, MaxFaults <- 2, MaxDrift <- 2,
  spaces <- v1, noted <- v2, around <- v3, ensure <- v4, blind <- v5, spent <- v6,
  Requests <- Actors, Members <- {"s"}, Live <- None, MaxEdits <- 2,
  product <- v1, pins <- v2, bindings <- v3, runs <- v4, request <- v5, sent <- v6, astray <- v7, edits <- v8,
  Reviewers <- Actors, Statuses <- {"new", "open", "closed"}, MaxReviews <- 4,
  listed <- v1, status <- v2, history <- v3, reviewer <- v4, missed <- v5, reviews <- v6,
  Users <- {"u", "v"}, Groups <- {"g"}, AdminGroup <- "admins", Nobody <- None, MaxChanges <- 2,
  MemberOf <- [w \in {"u", "v"} |-> IF w = "u" THEN {"g", "admins"} ELSE {"g"}],
  Table <- "table", Product <- "product", Rule <- "rule", Objects <- {"table", "product"},
  mappings <- v1, owner <- v2, members <- v3, share <- v4, grants <- v5, asked_for <- v6, given <- v7, changes <- v8,
  Readership <- {"u", "v"}, TTL <- 2, MaxTime <- 2,
  readable <- v1, filtered <- v2, lastSelect <- v3, lastOpen <- v4, verified <- v5, now <- v6, asking <- v7, begun <- v8,
  input <- v1, output <- v2,
  Drafters <- Actors, Columns <- {ColumnY}, Limit <- 2, _RATE_LIMIT_WINDOW <- 2, MaxTicks <- 1, MaxCalls <- 4,
  drafting <- v1, draft <- v2, slighted <- v3, drawn <- v4, clock <- v5

\* McpServer, TaskRunner and Setup.
Tools == INSTANCE McpProofs WITH Users <- {"a", "b"}, Calls <- Actors, _VIEW_TTL_SECONDS <- 0, _RESULT_TTL_SECONDS <- 0,
  _STAGED_TTL_SECONDS <- 1, _SWEEP_INTERVAL_SECONDS <- 1, MaxTime <- 1, MaxFaults <- 1,
  calls <- v1, runs <- v2, views <- v3, files <- v4, _last_sweep_at <- v5, clock <- v6, faults <- v7,
  Contents <- {<<>>, <<{"e", "w"}>>, <<{}, {"w"}>>, <<{"e"}, {"w"}>>, <<{"e", "w"}, {"e"}, {}>>},
  ShownRows <- 1, SummaryRows <- 1, _SQL_QUARANTINE_MAX_ROWS <- 2, MaxLosses <- 2,
  config <- v1, runner <- v2, table <- v3, seen <- v4, results <- v5, quarantine <- v6, metrics <- v7, left <- v8,
  Names <- {1, 2}, MaxEvents <- 2, MaxSwitches <- 1,
  deployed <- v1, stored <- v2, world <- v3, process <- v4, report <- v5, run <- v6, vouched <- v7, budget <- v8

\* Lists of actions, alerts of both gates among them, and conditions that
\* may fail for the metrics of a run.
Value(t, n) == [t |-> t, n |-> n]
Name(n) == [op |-> "name", name |-> n]
Const(n) == [op |-> "const", value |-> Value("num", n)]
Op(o, l, r) == [op |-> o, left |-> l, right |-> r]

AnyErrors == <<Name("errors"), Const(0), Op(">", 1, 2)>>
ErrorShare == <<Name("errors"), Name("total"), Op("/", 1, 2), Const(0), Op(">", 3, 4)>>

An(name, kind, condition, frequency, notify_on) ==
  [name |-> name, kind |-> kind, condition |-> condition, frequency |-> frequency, notify_on |-> notify_on]

Hourly == An("h", "alert", AnyErrors, "hourly", "each")
OnChange == An("s", "alert", AnyErrors, "always", "status_change")
Stop == An("f", "fail_pipeline", AnyErrors, "always", "each")
Custom == An("c", "custom", Value("none", 0), "always", "each")
Share == An("e", "alert", ErrorShare, "always", "each")

\* No errors, or some with a total that is text.
Observed == {[errors |-> Value("num", 0), total |-> Value("num", 1)], [errors |-> Value("digits", 1), total |-> Value("text", 0)]}

Lists == {<<Stop, Hourly>>, <<OnChange>>, <<Custom>>, <<Share>>}

\* RuleStore, AnomalyModels, EngineRuns and Actions.
Library == INSTANCE LibraryProofs WITH Null <- None,
  Writers <- Actors, Configs <- {"c"}, RuleSets <- {1, 2}, MaxSaves <- 3, NoPrint <- None,
  backend <- v1, table <- v2, columns <- v3, writer <- v4, reader <- v5, latest <- v6, clock <- v7,
  Trainers <- Actors, Segments <- {"a", "b"}, Spellings <- {"m", "M"}, MaxTrainings <- 2, MaxBreaks <- 2,
  models <- v1, trainer <- v2, trainings <- v3, hidden <- v4, overlapped <- v5, failures <- v6, created <- v7, lost <- v8,
  Slots <- Actors, MaxParallelism <- 2, MaxBatches <- 2, MaxFailures <- 1,
  configs <- v1, observer <- v2, futures <- v3, queries <- v4, tables <- v5, events <- v6, measured <- v7, caller <- v8,
  Evaluations <- Actors, ActionLists <- Lists, Metrics <- Observed, Hour <- 2, MaxTime <- 2, MaxCrashes <- 1, MaxRetries <- 1,
  ticks <- v1, epoch <- v2, actions <- v3, last_fired <- v4, last_status <- v5, recorded <- v6, run <- v7, fires <- v8

\* The pure components.
R == INSTANCE RowChecks WITH Null <- None, input <- v1, output <- v2
D == INSTANCE DatasetChecks WITH Null <- None, input <- v1, output <- v2
G == INSTANCE GeoChecks WITH Null <- None, input <- v1, output <- v2
S == INSTANCE SchemaChecks WITH Null <- None, input <- v1, output <- v2
E == INSTANCE Engine WITH Null <- None, input <- v1, output <- v2
P == INSTANCE Profiling WITH Null <- None, input <- v1, output <- v2
C == INSTANCE Contracts WITH Null <- None, input <- v1, output <- v2
Q == INSTANCE Rules WITH Null <- None, input <- v1, output <- v2
A == INSTANCE Anomaly WITH Null <- None, input <- v1, output <- v2
L == INSTANCE Lineage WITH Null <- None, MaxEvents <- 2, input <- v1, output <- v2
Results == INSTANCE DqResults WITH Null <- None, input <- v1, output <- v2
Statements == INSTANCE SqlStatements WITH Null <- None, MaxSaves <- 3, MaxChunks <- 2, input <- v1, output <- v2
Tests == INSTANCE RuleTests WITH Null <- None, input <- v1, output <- v2

ASSUME ConstantsAreFit ==
  /\ Studio!ScoreAssumption /\ Studio!Tokens!TokenAssumption /\ Studio!Options!SettingsAssumption /\ Studio!Genie!GenieAssumption
  /\ Studio!Readers!EntitlementAssumption /\ Studio!DraftAssumption
  /\ Tools!McpAssumption /\ Tools!Begin!SetupAssumption
  /\ Library!ActionAssumption /\ None \notin {1, 2}

-----------------------------------------------------------------------------

PureInit ==
  \/ part = "row" /\ R!Init
  \/ part = "dataset" /\ D!Init
  \/ part = "geo" /\ G!Init
  \/ part = "schema" /\ S!Init
  \/ part = "engine" /\ E!Init
  \/ part = "profile" /\ P!Init
  \/ part = "keys" /\ P!keysInit
  \/ part = "contract" /\ C!Init
  \/ part = "rules" /\ Q!Init
  \/ part = "anomaly" /\ A!Init
  \/ part = "lineage" /\ L!Init
  \/ part = "schedules" /\ Studio!Schedules!Init
  \/ part = "scores" /\ Results!scoresInit
  \/ part = "results" /\ Results!Init
  \/ part = "pages" /\ Results!pagesInit
  \/ part = "statements" /\ Statements!Init
  \/ part = "forms" /\ Tests!formsInit
  \/ part = "tests" /\ Tests!Init

Init ==
  /\ part \in Parts
  /\ \/ part = "store" /\ Library!Sets!Init /\ v8 = None
     \/ part = "models" /\ Library!Models!modelsInit
     \/ part = "runs" /\ Library!Pool!Init
     \/ part = "alerts" /\ Library!Alerts!Init
     \/ part = "setup" /\ Tools!Begin!Init
     \/ part = "access" /\ Studio!Grants!Init
     \/ part = "entitlements" /\ Studio!Readers!Init
     \/ part = "products" /\ Studio!Spaces!Init
     \/ part = "refresh" /\ Studio!Init
     \/ part = "settings" /\ Studio!Options!Init
     \/ part = "reviews" /\ Studio!Verdicts!Init /\ v7 = None /\ v8 = None
     \/ part = "tokens" /\ Studio!Tokens!Init /\ v8 = None
     \/ part = "drafts" /\ Studio!Drafts!draftsInit /\ v6 = None /\ v7 = None /\ v8 = None
     \/ part = "tools" /\ Tools!Init /\ v8 = None
     \/ part = "runner" /\ Tools!Job!Init
     \/ part = "genie" /\ Studio!Genie!Init /\ v7 = None /\ v8 = None
     \/ PureInit /\ v3 = None /\ v4 = None /\ v5 = None /\ v6 = None /\ v7 = None /\ v8 = None

PureNext ==
  \/ part = "row" /\ R!Next
  \/ part = "dataset" /\ D!Next
  \/ part = "geo" /\ G!Next
  \/ part = "schema" /\ S!Next
  \/ part = "engine" /\ E!Next
  \/ part = "profile" /\ P!Next
  \/ part = "keys" /\ P!keysNext
  \/ part = "contract" /\ C!Next
  \/ part = "rules" /\ Q!Next
  \/ part = "anomaly" /\ A!Next
  \/ part = "lineage" /\ L!Next
  \/ part = "schedules" /\ Studio!Schedules!Next
  \/ part = "scores" /\ Results!scoresNext
  \/ part = "results" /\ Results!Next
  \/ part = "pages" /\ Results!pagesNext
  \/ part = "statements" /\ Statements!Next
  \/ part = "forms" /\ Tests!formsNext
  \/ part = "tests" /\ Tests!Next

Next ==
  /\ UNCHANGED part
  /\ \/ part = "store" /\ Library!Sets!Next /\ UNCHANGED v8
     \/ part = "models" /\ Library!Models!modelsNext
     \/ part = "runs" /\ Library!Pool!Next
     \/ part = "alerts" /\ Library!Alerts!Next
     \/ part = "setup" /\ Tools!Begin!Next
     \/ part = "access" /\ Studio!Grants!Next
     \/ part = "entitlements" /\ Studio!Readers!Next
     \/ part = "products" /\ Studio!Spaces!Next
     \/ part = "refresh" /\ Studio!Next
     \/ part = "settings" /\ Studio!Options!Next
     \/ part = "reviews" /\ Studio!Verdicts!Next /\ UNCHANGED <<v7, v8>>
     \/ part = "tokens" /\ Studio!Tokens!Next /\ UNCHANGED v8
     \/ part = "drafts" /\ Studio!Drafts!draftsNext /\ UNCHANGED <<v6, v7, v8>>
     \/ part = "tools" /\ Tools!Next /\ UNCHANGED v8
     \/ part = "runner" /\ Tools!Job!Next
     \/ part = "genie" /\ Studio!Genie!Next /\ UNCHANGED <<v7, v8>>
     \/ PureNext /\ UNCHANGED <<v3, v4, v5, v6, v7, v8>>

vars == <<part, v1, v2, v3, v4, v5, v6, v7, v8>>
Spec == Init /\ [][Next]_vars

\* Writers, trainers, runs, administrators, reviewers, callers and requests are alike.
Symmetry == Permutations(Actors)

-----------------------------------------------------------------------------
(* Properties; the module of each part comments on its own. *)

\* RowChecks: a NULL passes every check that is not there to refuse it; limits,
\* decimal places and address blocks go by the value.  DatasetChecks, GeoChecks,
\* SchemaChecks: windows, joins and recursions neither lose nor multiply rows and
\* give the verdicts the documentation describes; what cannot be read as a
\* geometry is reported, and the approximate mode accepts whatever the precise
\* one does.
VerdictsMatchTheData ==
  /\ part = "row" => R!NullsPassUnlessRefused /\ R!FlagsWhatIsDocumented
  /\ part = "dataset" => D!RowsArePreserved /\ D!VerdictsMatchTheData
  /\ part = "geo" => G!MeetingPolygonsAreReported /\ G!UnreadableIsReported /\ G!ApproximateAcceptsPrecise
  /\ part = "schema" => S!SchemaVerdictsAgree

\* Engine: checks that share work report what they would report alone, and tables
\* and metrics account for every row.
EngineAccountsForRows == part = "engine" => E!SharingChangesNothing /\ E!MetricsAgreeWithTables

\* Profiling, Contracts, Rules: a generated check passes the data it
\* was derived from, generated rules decide what the contract asks for, and
\* rules survive storage with their fingerprint and filter.
GeneratedRulesFit ==
  /\ part = "profile" => P!ProfiledDataPasses
  /\ part = "contract" => C!RulesDecideTheContract
  /\ part = "keys" => P!KeysAreFound
  /\ part = "rules" => Q!RulesSurviveStorage

\* Anomaly, Lineage: features, gates, joins and explanations follow the data
\* scored, and what led to an anomaly is walked to the end, this run's failures only.
AnomaliesFollowTheData ==
  /\ part = "anomaly" =>
       /\ A!ScoredAsTrained /\ A!FlaggedRowsHaveContributions /\ A!ScoringKeepsTheRows
       /\ A!ExplanationsFitTheRows /\ A!DriftIsADifference /\ A!DiscoveredColumnsAreUsable
  /\ part = "lineage" => L!LineageIsFollowed

\* RuleStore, AnomalyModels: what is saved once is loaded from then on, whole and
\* unmixed; a model is there until the next one is, and one at a time, unless
\* trainings overlap.
SavedOnceLoadedForward ==
  /\ part = "store" => Library!Sets!SavedOnceLoadedForward
  /\ part = "models" => Library!Models!ModelsAreSucceeded

\* EngineRuns, Actions: tables and metrics account for every batch and
\* configuration of a pool; an alert goes out once per window, and a stopped
\* run leaves evidence.
RunsLeaveTheirTraces ==
  /\ part = "runs" => Library!Pool!RunsAreAccountedFor
  /\ part = "alerts" => Library!Alerts!OncePerWindow /\ Library!Alerts!StoppedRunsLeaveEvidence

\* Setup, GenieSpace: the lock names the storage, READY is earned, nobody vouches
\* for something else than what is shown; and the one Genie space keeps up.
SetupIsHonest ==
  /\ part = "setup" => Tools!Begin!LockNamesTheStorage /\ Tools!Begin!ReadyIsEarned /\ Tools!Begin!VouchedForThis
  /\ part = "genie" => Studio!Genie!GenieSpaceIsKept

\* Access, Entitlements, ScheduleGrants, TokenRefresh: who may hand on was allowed
\* to, rows are shown for a while to those who could read them when they were asked
\* about, a schedule that passes can read its table, repairs help, and no login
\* comes with a token past its time.
AccessIsHandedDown ==
  /\ part = "access" => Studio!Grants!ManageIsHandedDown
  /\ part = "entitlements" => Studio!Readers!ShownToRecentReaders
  /\ part = "schedules" => Studio!Schedules!PassedTablesAreReadable /\ Studio!Schedules!RepairsHelp
  /\ part = "tokens" => Studio!Tokens!LoginsAreAccepted

\* Products, Reviews: what was decided is what was submitted, and the history of
\* a review tells how it came about.
DecisionsStand ==
  /\ part = "products" => Studio!Spaces!ReviewedAsSubmitted
  /\ part = "reviews" => Studio!Verdicts!HistoryHolds

\* ScoreRefresh: the scores of a run that ended are taken up, waited for or given
\* up, for want of the refresh or of the list of jobs.
NoScoreSlips == part = "refresh" => Studio!NoScoreSlips

\* Settings: a save leaves alone what it is not about.
SavesKeepTheRest == [][part = "settings" => Studio!Options!SavesKeepTheRest]_vars

\* TaskRunner: the rows, the quarantine and the metrics of a run tell one story.
RunsTellOneStory == part = "runner" => Tools!Job!RunsTellOneStory

\* McpServer, AiDrafts: runs are private, and inputs and results are there in
\* time; a draft that is handed out can be bound to the columns it declares.
AssistantsKeepTheirWord ==
  /\ part = "tools" => Tools!McpKeepsItsWord
  /\ part = "drafts" => Studio!Drafts!DraftsCanBeBound

\* DqResults: every view of the results tells the same story, up to the batch it
\* ends with, and scores weigh every rule equally.
ResultsAgree ==
  /\ part = "results" => Results!ResultsAgree
  /\ part = "pages" => Results!PagesAgree
  /\ part = "scores" => Results!RulesWeighEqually /\ Results!TrendEndsAtTheScore

\* SqlStatements: a statement reaches the rows it means and counts them, and a
\* result is whole or the call raises.
StatementsReachWhatTheyMean ==
  part = "statements" => Statements!StatementsReachWhatTheyMean /\ Statements!SavesAreCounted /\ Statements!CompleteOrRaised

\* RuleTests: a rule that is built from a form, or tested in the editor, decides
\* like the rule that runs.
RulesMeanWhatTheyShow ==
  /\ part = "forms" => Tests!OppositesAreOpposite /\ Tests!ShapeChangesNothing /\ Tests!OwnColumnsHaveSlots
  /\ part = "tests" => Tests!TestsAgreeWithRuns /\ Tests!ManualTestsStandAlone

\* As documented, calls are limited per user and hour.
RateIsLimited == part = "drafts" => Studio!Drafts!RateIsLimited
=============================================================================
