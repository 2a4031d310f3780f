SPECIFICATION WatchedSpec
CONSTANTS
  Runs = {r1, r2}
  BindingRuns = {}
  PreviewRuns = {}
  DirectRuns = {}
  LargeRuns = {}
  CancelRuns = {}
  FaultKinds = {"kill", "jobs_down"}
  MaxReconcile = 1
  MaxSweep = 2
PROPERTY EndedRunIsReported
