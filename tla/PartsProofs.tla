---------------------------- MODULE PartsProofs ----------------------------
(***************************************************************************)
(* What the runs of MCParts check, proved of the same specification.  A    *)
(* part never changes, so that the components together behave like the one *)
(* that part names, with its constants: the theorem about that component,  *)
(* which holds of any constants, carries over.                             *)
(***************************************************************************)
EXTENDS MCParts, TLAPS

-----------------------------------------------------------------------------
(* Part by part *)

(* A table space up for review, or approved, is as it was submitted (Products). *)
LEMMA SpacesHoldWhatWasSubmitted ==
  Spec => [](part = "products" => Studio!Spaces!ReviewedAsSubmitted)
PROOF
<1>1. Studio!Spaces!Spec => []Studio!Spaces!ReviewedAsSubmitted
  BY Studio!DecisionsAreAboutWhatWasSubmitted
<1>2. Init /\ part = "products" => Studio!Spaces!Init
  BY DEF Init, PureInit
<1>3. [Next]_vars /\ part = "products" => [Studio!Spaces!Next]_Studio!Spaces!productVars /\ (part = "products")'
  BY DEF Next, PureNext, vars, Studio!Spaces!productVars
<1>4. [Next]_vars /\ ~(part = "products") => ~(part = "products")'
  BY DEF Next, vars
<1>5. QED
  BY <1>1, <1>2, <1>3, <1>4, PTL DEF Spec, Studio!Spaces!Spec

(* The history of a review tells how its status came about (Reviews). *)
LEMMA ReviewsTellTheirStory ==
  Spec => [](part = "reviews" => Studio!Verdicts!HistoryHolds)
PROOF
<1>1. Studio!Verdicts!Spec => []Studio!Verdicts!HistoryHolds
  BY Studio!HistoriesTellTheStory
<1>2. Init /\ part = "reviews" => Studio!Verdicts!Init
  BY DEF Init, PureInit
<1>3. [Next]_vars /\ part = "reviews" => [Studio!Verdicts!Next]_Studio!Verdicts!reviewsVars /\ (part = "reviews")'
  BY DEF Next, PureNext, vars, Studio!Verdicts!reviewsVars
<1>4. [Next]_vars /\ ~(part = "reviews") => ~(part = "reviews")'
  BY DEF Next, vars
<1>5. QED
  BY <1>1, <1>2, <1>3, <1>4, PTL DEF Spec, Studio!Verdicts!Spec

(* The right to change grants is only handed down (Access). *)
LEMMA GrantsAreHandedDown ==
  Spec => [](part = "access" => Studio!Grants!ManageIsHandedDown)
PROOF
<1>1. Studio!Grants!Spec => []Studio!Grants!ManageIsHandedDown
  BY Studio!ManageIsOnlyHandedDown
<1>2. Init /\ part = "access" => Studio!Grants!Init
  BY DEF Init, PureInit
<1>3. [Next]_vars /\ part = "access" => [Studio!Grants!Next]_Studio!Grants!accessVars /\ (part = "access")'
  BY DEF Next, PureNext, vars, Studio!Grants!accessVars
<1>4. [Next]_vars /\ ~(part = "access") => ~(part = "access")'
  BY DEF Next, vars
<1>5. QED
  BY <1>1, <1>2, <1>3, <1>4, PTL DEF Spec, Studio!Grants!Spec

(* Failing rows are shown to those who could read them lately (Entitlements). *)
LEMMA ReadersCouldRead ==
  Spec => [](part = "entitlements" => Studio!Readers!ShownToRecentReaders)
PROOF
<1>1. Studio!Readers!Spec => []Studio!Readers!ShownToRecentReaders
  BY ConstantsAreFit, Studio!RowsAreShownToReaders DEF ConstantsAreFit
<1>2. Init /\ part = "entitlements" => Studio!Readers!Init
  BY DEF Init, PureInit
<1>3. [Next]_vars /\ part = "entitlements" => [Studio!Readers!Next]_Studio!Readers!entitlementVars /\ (part = "entitlements")'
  BY DEF Next, PureNext, vars, Studio!Readers!entitlementVars
<1>4. [Next]_vars /\ ~(part = "entitlements") => ~(part = "entitlements")'
  BY DEF Next, vars
<1>5. QED
  BY <1>1, <1>2, <1>3, <1>4, PTL DEF Spec, Studio!Readers!Spec

(* A table that passed preflight can be read, and repairs help (ScheduleGrants). *)
LEMMA SchedulesCanReadTheirTables ==
  Spec => [](part = "schedules" => Studio!Schedules!PassedTablesAreReadable /\ Studio!Schedules!RepairsHelp)
PROOF
<1>1. Studio!Schedules!Spec => [](Studio!Schedules!PassedTablesAreReadable /\ Studio!Schedules!RepairsHelp)
  BY Studio!SchedulesCanRead
<1>2. Init /\ part = "schedules" => Studio!Schedules!Init
  BY DEF Init, PureInit
<1>3. [Next]_vars /\ part = "schedules" => [Studio!Schedules!Next]_Studio!Schedules!schedulesVars /\ (part = "schedules")'
  BY DEF Next, PureNext, vars, Studio!Schedules!schedulesVars
<1>4. [Next]_vars /\ ~(part = "schedules") => ~(part = "schedules")'
  BY DEF Next, vars
<1>5. QED
  BY <1>1, <1>2, <1>3, <1>4, PTL DEF Spec, Studio!Schedules!Spec

(* Setup locks, publishes and trusts what it says (Setup). *)
LEMMA SetupIsEarned ==
  Spec => [](part = "setup" => Tools!Begin!LockNamesTheStorage /\ Tools!Begin!ReadyIsEarned /\ Tools!Begin!VouchedForThis)
PROOF
<1>1. Tools!Begin!Spec => [](Tools!Begin!LockNamesTheStorage /\ Tools!Begin!ReadyIsEarned /\ Tools!Begin!VouchedForThis)
  BY ConstantsAreFit, Tools!SetupKeepsItsPromises DEF ConstantsAreFit
<1>2. Init /\ part = "setup" => Tools!Begin!Init
  BY DEF Init, PureInit
<1>3. [Next]_vars /\ part = "setup" => [Tools!Begin!Next]_Tools!Begin!vars /\ (part = "setup")'
  BY DEF Next, PureNext, vars, Tools!Begin!vars
<1>4. [Next]_vars /\ ~(part = "setup") => ~(part = "setup")'
  BY DEF Next, vars
<1>5. QED
  BY <1>1, <1>2, <1>3, <1>4, PTL DEF Spec, Tools!Begin!Spec

(* The Genie space is as it is noted, and there is a second one only where a
   lookup missed the first (GenieSpace). *)
LEMMA TheGenieSpaceIsKept ==
  Spec => [](part = "genie" => Studio!Genie!GenieSpaceIsKept)
PROOF
<1>1. Studio!Genie!Spec => [](Studio!Genie!GenieSpaceIsKept)
  BY ConstantsAreFit, Studio!OneSpaceIsKept DEF ConstantsAreFit
<1>2. Init /\ part = "genie" => Studio!Genie!Init
  BY DEF Init, PureInit
<1>3. [Next]_vars /\ part = "genie" => [Studio!Genie!Next]_Studio!Genie!genieVars /\ (part = "genie")'
  BY DEF Next, PureNext, vars, Studio!Genie!genieVars
<1>4. [Next]_vars /\ ~(part = "genie") => ~(part = "genie")'
  BY DEF Next, vars
<1>5. QED
  BY <1>1, <1>2, <1>3, <1>4, PTL DEF Spec, Studio!Genie!Spec

(* No score of a run slips through the passes of the scheduler (ScoreRefresh). *)
LEMMA ScoresOfRefreshedTables ==
  Spec => [](part = "refresh" => Studio!NoScoreSlips)
PROOF
<1>1. Studio!Spec => []Studio!NoScoreSlips
  BY ConstantsAreFit, Studio!ScoresAreTakenUp DEF ConstantsAreFit
<1>2. Init /\ part = "refresh" => Studio!Init
  BY DEF Init, PureInit
<1>3. [Next]_vars /\ part = "refresh" => [Studio!Next]_Studio!refreshVars /\ (part = "refresh")'
  BY DEF Next, PureNext, vars, Studio!refreshVars
<1>4. [Next]_vars /\ ~(part = "refresh") => ~(part = "refresh")'
  BY DEF Next, vars
<1>5. QED
  BY <1>1, <1>2, <1>3, <1>4, PTL DEF Spec, Studio!Spec

(* No login comes with a token past its time (TokenRefresh). *)
LEMMA TokensOfLogins ==
  Spec => [](part = "tokens" => Studio!Tokens!LoginsAreAccepted)
PROOF
<1>1. Studio!Tokens!Spec => []Studio!Tokens!LoginsAreAccepted
  BY ConstantsAreFit, Studio!TokensOutliveTheirRetries DEF ConstantsAreFit
<1>2. Init /\ part = "tokens" => Studio!Tokens!Init
  BY DEF Init, PureInit
<1>3. [Next]_vars /\ part = "tokens" => [Studio!Tokens!Next]_Studio!Tokens!tokenVars /\ (part = "tokens")'
  BY DEF Next, PureNext, vars, Studio!Tokens!tokenVars
<1>4. [Next]_vars /\ ~(part = "tokens") => ~(part = "tokens")'
  BY DEF Next, vars
<1>5. QED
  BY <1>1, <1>2, <1>3, <1>4, PTL DEF Spec, Studio!Tokens!Spec

(* The runs of the MCP server are private and find what they need (McpServer). *)
LEMMA ToolsKeepTheirWord ==
  Spec => [](part = "tools" => Tools!McpKeepsItsWord)
PROOF
<1>1. Tools!Spec => []Tools!McpKeepsItsWord
  BY ConstantsAreFit, Tools!McpServerKeepsItsWord DEF ConstantsAreFit
<1>2. Init /\ part = "tools" => Tools!Init
  BY DEF Init, PureInit
<1>3. [Next]_vars /\ part = "tools" => [Tools!Next]_Tools!mcpVars /\ (part = "tools")'
  BY DEF Next, PureNext, vars, Tools!mcpVars
<1>4. [Next]_vars /\ ~(part = "tools") => ~(part = "tools")'
  BY DEF Next, vars
<1>5. QED
  BY <1>1, <1>2, <1>3, <1>4, PTL DEF Spec, Tools!Spec

(* The job leaves rows, quarantine and metrics that agree (TaskRunner). *)
LEMMA JobsTellOneStory ==
  ASSUME Tools!JobAssumption
  PROVE  Spec => [](part = "runner" => Tools!Job!RunsTellOneStory)
PROOF
<1>1. Tools!Job!Spec => []Tools!Job!RunsTellOneStory
  BY Tools!RunsTellTheirStory
<1>2. Init /\ part = "runner" => Tools!Job!Init
  BY DEF Init, PureInit
<1>3. [Next]_vars /\ part = "runner" => [Tools!Job!Next]_Tools!Job!runnerVars /\ (part = "runner")'
  BY DEF Next, PureNext, vars, Tools!Job!runnerVars
<1>4. [Next]_vars /\ ~(part = "runner") => ~(part = "runner")'
  BY DEF Next, vars
<1>5. QED
  BY <1>1, <1>2, <1>3, <1>4, PTL DEF Spec, Tools!Job!Spec

(* What is saved once is loaded from then on, whole and unmixed (RuleStore). *)
LEMMA RuleSetsAreLoadedForward ==
  Spec => [](part = "store" => Library!Sets!SavedOnceLoadedForward)
PROOF
<1>1. Library!Sets!Spec => [](Library!Sets!SavedOnceLoadedForward)
  BY ConstantsAreFit, Library!RuleSetsAreSavedOnceAndLoadedForward DEF ConstantsAreFit
<1>2. Init /\ part = "store" => Library!Sets!Init
  BY DEF Init, PureInit
<1>3. [Next]_vars /\ part = "store" => [Library!Sets!Next]_Library!Sets!vars /\ (part = "store")'
  BY DEF Next, PureNext, vars, Library!Sets!vars
<1>4. [Next]_vars /\ ~(part = "store") => ~(part = "store")'
  BY DEF Next, vars
<1>5. QED
  BY <1>1, <1>2, <1>3, <1>4, PTL DEF Spec, Library!Sets!Spec

(* A model is there until the next one is, and one at a time, unless trainings
   overlap (AnomalyModels). *)
LEMMA ModelsAreThere ==
  Spec => [](part = "models" => Library!Models!ModelsAreSucceeded)
PROOF
<1>1. Library!Models!modelsInit /\ [][Library!Models!modelsNext]_Library!Models!modelsVars
         => [](Library!Models!ModelsAreSucceeded)
  BY ConstantsAreFit, Library!ModelsHaveSuccessors DEF ConstantsAreFit
<1>2. Init /\ part = "models" => Library!Models!modelsInit
  BY DEF Init, PureInit
<1>3. [Next]_vars /\ part = "models" => [Library!Models!modelsNext]_Library!Models!modelsVars /\ (part = "models")'
  BY DEF Next, PureNext, vars, Library!Models!modelsVars
<1>4. [Next]_vars /\ ~(part = "models") => ~(part = "models")'
  BY DEF Next, vars
<1>5. QED
  BY <1>1, <1>2, <1>3, <1>4, PTL DEF Spec

(* Tables and metrics account for every batch and configuration (EngineRuns). *)
LEMMA PoolsAccountForRows ==
  Spec => [](part = "runs" => Library!Pool!RunsAreAccountedFor)
PROOF
<1>1. Library!Pool!Spec => [](Library!Pool!RunsAreAccountedFor)
  BY ConstantsAreFit, Library!ConfigurationsAreAccountedFor DEF ConstantsAreFit
<1>2. Init /\ part = "runs" => Library!Pool!Init
  BY DEF Init, PureInit
<1>3. [Next]_vars /\ part = "runs" => [Library!Pool!Next]_Library!Pool!vars /\ (part = "runs")'
  BY DEF Next, PureNext, vars, Library!Pool!vars
<1>4. [Next]_vars /\ ~(part = "runs") => ~(part = "runs")'
  BY DEF Next, vars
<1>5. QED
  BY <1>1, <1>2, <1>3, <1>4, PTL DEF Spec, Library!Pool!Spec

(* An alert goes out once per window, a stopped run leaves evidence (Actions). *)
LEMMA AlertsAreSentOnce ==
  Spec => [](part = "alerts" => Library!Alerts!OncePerWindow /\ Library!Alerts!StoppedRunsLeaveEvidence)
PROOF
<1>1. Library!Alerts!Spec => [](Library!Alerts!OncePerWindow /\ Library!Alerts!StoppedRunsLeaveEvidence)
  BY ConstantsAreFit, Library!AlertsGoOutOncePerWindow DEF ConstantsAreFit
<1>2. Init /\ part = "alerts" => Library!Alerts!Init
  BY DEF Init, PureInit
<1>3. [Next]_vars /\ part = "alerts" => [Library!Alerts!Next]_Library!Alerts!vars /\ (part = "alerts")'
  BY DEF Next, PureNext, vars, Library!Alerts!vars
<1>4. [Next]_vars /\ ~(part = "alerts") => ~(part = "alerts")'
  BY DEF Next, vars
<1>5. QED
  BY <1>1, <1>2, <1>3, <1>4, PTL DEF Spec, Library!Alerts!Spec

(* A draft that is handed out can be bound to the columns it declares (AiDrafts). *)
LEMMA DraftsOfTheModel ==
  Spec => [](part = "drafts" => Studio!Drafts!DraftsCanBeBound)
PROOF
<1>1. Studio!Drafts!draftsInit /\ [][Studio!Drafts!draftsNext]_Studio!Drafts!draftVars
         => [](Studio!Drafts!DraftsCanBeBound)
  BY ConstantsAreFit, Studio!DraftsAreBindable DEF ConstantsAreFit
<1>2. Init /\ part = "drafts" => Studio!Drafts!draftsInit
  BY DEF Init, PureInit
<1>3. [Next]_vars /\ part = "drafts" => [Studio!Drafts!draftsNext]_Studio!Drafts!draftVars /\ (part = "drafts")'
  BY DEF Next, PureNext, vars, Studio!Drafts!draftVars
<1>4. [Next]_vars /\ ~(part = "drafts") => ~(part = "drafts")'
  BY DEF Next, vars
<1>5. QED
  BY <1>1, <1>2, <1>3, <1>4, PTL DEF Spec

(* A save of settings leaves the rest alone (Settings). *)
LEMMA SavesAreToThePoint ==
  Spec => [][part = "settings" => Studio!Options!SavesKeepTheRest]_vars
PROOF
<1>1. Studio!Options!Init /\ [][Studio!Options!Next]_Studio!Options!settingsVars
        => [][Studio!Options!SavesKeepTheRest]_Studio!Options!settingsVars
  BY ConstantsAreFit, Studio!SavesAreToThePoint DEF ConstantsAreFit
<1>2. Init /\ part = "settings" => Studio!Options!Init
  BY DEF Init, PureInit
<1>3. [Next]_vars /\ part = "settings" => [Studio!Options!Next]_Studio!Options!settingsVars /\ (part = "settings")'
  BY DEF Next, PureNext, vars, Studio!Options!settingsVars
<1>4. [Next]_vars /\ ~(part = "settings") => ~(part = "settings")'
  BY DEF Next, vars
<1>5. [Next]_vars /\ part = "settings" /\ [Studio!Options!SavesKeepTheRest]_Studio!Options!settingsVars
        => [part = "settings" => Studio!Options!SavesKeepTheRest]_vars
  BY DEF Next, PureNext, vars, Studio!Options!settingsVars
<1>6. ~(part = "settings") => [part = "settings" => Studio!Options!SavesKeepTheRest]_vars
  OBVIOUS
<1>7. QED
  BY <1>1, <1>2, <1>3, <1>4, <1>5, <1>6, PTL DEF Spec

-----------------------------------------------------------------------------
(* The properties the runs check. *)

(* What is saved once, a set of rules or a model, is what is loaded from then on,
   whole, until the next one takes its place, wherever a save breaks off: rule
   sets whoever saves at the same time, models as long as no two trainings
   overlap, which may lose the record of one (RuleStore, AnomalyModels). *)
THEOREM SavedIsLoaded == Spec => []SavedOnceLoadedForward
PROOF
  BY RuleSetsAreLoadedForward, ModelsAreThere, PTL DEF SavedOnceLoadedForward

(* The tables and metrics of a pool of runs account for every configuration and
   batch, an alert goes out once per window, across crashes, and a run that was
   stopped leaves evidence (EngineRuns, Actions). *)
THEOREM RunsAreTraced == Spec => []RunsLeaveTheirTraces
PROOF
  BY PoolsAccountForRows, AlertsAreSentOnce, PTL DEF RunsLeaveTheirTraces

(* What was approved is what was submitted: a table space is published, or sent
   back, as the approver saw it (review_product), and the status of a review is
   the one its history ends with (set_status). *)
THEOREM DecisionsStandAsTaken == Spec => []DecisionsStand
PROOF
  BY SpacesHoldWhatWasSubmitted, ReviewsTellTheirStory, PTL DEF DecisionsStand

(* Who may hand on the right to change grants was allowed to, failing rows are
   shown only to those who could select from their table, and while it was
   unfiltered, since the request behind their record began, a schedule that passes
   preflight can read its table, the statements it lists help, and no login
   comes with a token past its time (Access, Entitlements, ScheduleGrants,
   TokenRefresh). *)
THEOREM AccessGoesByTheRules == Spec => []AccessIsHandedDown
PROOF
  BY GrantsAreHandedDown, ReadersCouldRead, SchedulesCanReadTheirTables, TokensOfLogins, PTL DEF AccessIsHandedDown

(* Wherever the process ends and whichever call fails, setup locks only what is
   Studio's, publishes READY when it is, shows as settled what was, and has
   a second Genie space only where a lookup missed the first (Setup, GenieSpace). *)
THEOREM SetupKeepsFaith == Spec => []SetupIsHonest
PROOF
  BY SetupIsEarned, TheGenieSpaceIsKept, PTL DEF SetupIsHonest

(* The scores of a run that ended are taken up, still waited for, or given up,
   because a refresh failed for good or the jobs could not be listed
   (ScoreRefresh): none slips between two sweeps. *)
THEOREM ScoresDoNotSlip == Spec => []NoScoreSlips
PROOF
  BY ScoresOfRefreshedTables, PTL DEF NoScoreSlips

(* A caller of the MCP server reads the result of its own runs only, and a run
   that still needs its view or its staged input finds them (McpServer); and a
   draft that is handed out can be stored and bound to the columns it declares
   (AiDrafts). *)
THEOREM ToolsArePrivateAndInTime == Spec => []AssistantsKeepTheirWord
PROOF
  BY ToolsKeepTheirWord, DraftsOfTheModel, PTL DEF AssistantsKeepTheirWord

(* The rows, the quarantined rows and the metrics a job leaves behind agree,
   whatever it lost on the way (TaskRunner). *)
THEOREM JobsAgreeWithThemselves ==
  ASSUME Tools!JobAssumption
  PROVE  Spec => []RunsTellOneStory
PROOF
  BY JobsTellOneStory, PTL DEF RunsTellOneStory

(* Whatever administrators save at once, and wherever a save fails: built-in
   labels stay, the branding holds together, a sample stays within the bounds
   of its kind, and what a save is not about is left alone (app_settings_service). *)
THEOREM SettingsKeepTheRest == Spec => SavesKeepTheRest
PROOF
  BY SavesAreToThePoint, PTL DEF SavesKeepTheRest
=============================================================================
