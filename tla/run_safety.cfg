SPECIFICATION Spec
CONSTANTS
  Runs = {r1, r2}
  BindingRuns = {r1}
  PreviewRuns = {}
  DirectRuns = {r2}
  LargeRuns = {r1}
  CancelRuns = {r1}
  FaultKinds = {"view", "stage", "submit", "run_set", "app_crash", "config", "checks", "persist", "error_row", "kill", "jobs_api"}
  MaxReconcile = 1
  MaxSweep = 1
INVARIANTS TypeOK SuccessIsShown LiveViewIsKept MemberHasRow NoEmptyRunSet StagedConfigIsNeeded
PROPERTY TerminalStaysTerminal
