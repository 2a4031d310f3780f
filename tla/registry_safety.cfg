SPECIFICATION Spec
CONSTANTS
  Rules = {r1, r2}
  Contents = {a, b}
  Fingerprint <- OwnFingerprint
  Users = {u1}
  Requests = {q1, q2}
  Dialect = "postgres"
  FaultKinds = {"crash", "snapshot"}
  NoRow = NoRow
  MaxVersion = 2
  MaxOps = 4
INVARIANTS TypeOK PublishedHasSnapshot
PROPERTIES DeletedStaysDeleted OnlyStaleCopiesBreakTheLifeCycle ImplementsVersionStore
SYMMETRY Alike
CHECK_DEADLOCK FALSE
