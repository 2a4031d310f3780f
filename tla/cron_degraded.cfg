SPECIFICATION Spec
CONSTANTS
  Configs = {}
  Products = {p1}
  TableScheds = {}
  Tables = {t1}
  Scope <- AllTables
  Kind <- ProfilingAndDq
  Cadences = {"every2", "every3"}
  NoCadence = NoCadence
  Occurs <- OccursAt
  NoSchedule = NoSchedule
  FailureBackoff = 2
  InFlightMaxAge = 3
  ForeignOverlapGrace = 2
  FaultKinds = {"tracker_write", "submit", "jobs_api", "load"}
  MaxFaults = 1
  MaxUserOps = 1
  MaxTime = 3
INVARIANT NextAfterLast
PROPERTIES FiringIsOwed OwedRunIsNotLost
CHECK_DEADLOCK FALSE
