SPECIFICATION Spec
CONSTANTS
  None = None
  Pending = Pending
  Malformed = Malformed
  Raised = Raised
  Refused = Refused
  Mistyped = Mistyped
  Plain = Plain
  Unbounded = Unbounded
  ColumnY = ColumnY
  NoRule = NoRule
  Actors = {a1, a2}
  Parts = {"setup", "access", "entitlements", "products", "refresh", "settings", "reviews", "tokens", "drafts", "tools", "runner", "genie",
           "schedules", "scores", "results", "pages", "statements", "forms", "tests"}
INVARIANTS SetupIsHonest AccessIsHandedDown DecisionsStand NoScoreSlips RunsTellOneStory AssistantsKeepTheirWord ResultsAgree StatementsReachWhatTheyMean RulesMeanWhatTheyShow
PROPERTY SavesKeepTheRest
SYMMETRY Symmetry
CHECK_DEADLOCK FALSE
