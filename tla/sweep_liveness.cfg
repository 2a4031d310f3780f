SPECIFICATION UnattendedSpec
CONSTANTS
  Runs = {r1, r2}
  BindingRuns = {}
  PreviewRuns = {r2}
  DirectRuns = {}
  LargeRuns = {}
  CancelRuns = {}
  FaultKinds = {"kill", "app_crash"}
  MaxReconcile = 2
  MaxSweep = 2
PROPERTY AbandonedViewIsReaped
