SPECIFICATION Spec
CONSTANTS
  Configs = {c1}
  Products = {p1}
  TableScheds = {}
  Tables = {t1}
  Scope <- AllTables
  Kind <- DqOnly
  Cadences = {"every2", "broken"}
  NoCadence = NoCadence
  Occurs <- OccursAt
  NoSchedule = NoSchedule
  FailureBackoff = 1
  InFlightMaxAge = 1
  ForeignOverlapGrace = 1
  FaultKinds = {"crash", "tracker_write", "bookkeeping", "submit"}
  MaxFaults = 1
  MaxUserOps = 1
  MaxTime = 2
INVARIANTS TypeOK NoSelfOverlap
CHECK_DEADLOCK FALSE
