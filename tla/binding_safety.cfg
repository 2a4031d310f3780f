SPECIFICATION Spec
CONSTANTS
  Rules = {r1}
  Contents = {x, y}
  Mappings = {m1}
  Groups = {0}
  Fits <- OneMisfit
  Edits = {e1}
  Apps = {a1, a2}
  Requests = {q1, q2}
  FaultKinds = {"crash", "snapshot"}
  None = None
  MaxVersion = 2
  MaxOps = 3
INVARIANTS TypeOK ReviewedVersionsOnly StoreHoldsWhatRuns
PROPERTY NothingIsLost
SYMMETRY Alike
CHECK_DEADLOCK FALSE
