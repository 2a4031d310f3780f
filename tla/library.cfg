SPECIFICATION Spec
CONSTANTS
  None = None
  Pending = Pending
  Malformed = Malformed
  Raised = Raised
  Refused = Refused
  Mistyped = Mistyped
  Plain = Plain
  Unbounded = Unbounded
  ColumnY = ColumnY
  NoRule = NoRule
  Actors = {a1, a2}
  Parts = {"row", "dataset", "geo", "schema", "engine", "profile", "keys", "contract", "rules", "anomaly", "lineage", "store", "models", "runs", "alerts"}
SYMMETRY Symmetry
INVARIANTS VerdictsMatchTheData EngineAccountsForRows GeneratedRulesFit AnomaliesFollowTheData SavedOnceLoadedForward RunsLeaveTheirTraces
CHECK_DEADLOCK FALSE
