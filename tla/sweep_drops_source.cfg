SPECIFICATION Spec
CONSTANTS
  Runs = {r1}
  BindingRuns = {}
  PreviewRuns = {}
  DirectRuns = {r1}
  LargeRuns = {}
  CancelRuns = {}
  FaultKinds = {}
  MaxReconcile = 1
  MaxSweep = 1
INVARIANT SourceIsKept
