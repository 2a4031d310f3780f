SPECIFICATION Spec
CONSTANTS
  None = None
  Pending = Pending
  Malformed = Malformed
  Raised = Raised
  Refused = Refused
  Mistyped = Mistyped
  Plain = Plain
  Unbounded = Unbounded
  ColumnY = ColumnY
  NoRule = NoRule
  Actors = {a1, a2}
  Parts = {"drafts"}
INVARIANT RateIsLimited
CHECK_DEADLOCK FALSE
