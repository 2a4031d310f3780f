SPECIFICATION FairSpec
CONSTANTS
  Configs = {}
  Products = {}
  TableScheds = {m1}
  Tables = {t1}
  Scope <- AllTables
  Kind <- DqOnly
  Cadences = {"every2"}
  NoCadence = NoCadence
  Occurs <- OccursAt
  NoSchedule = NoSchedule
  FailureBackoff = 2
  InFlightMaxAge = 3
  ForeignOverlapGrace = 2
  FaultKinds = {"crash", "tracker_write", "jobs_api", "submit"}
  MaxFaults = 1
  MaxUserOps = 1
  MaxTime = 3
PROPERTY OwedRunIsHandled
CHECK_DEADLOCK FALSE
