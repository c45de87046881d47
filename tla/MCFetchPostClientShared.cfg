CONSTANTS
  Call = {c1, c2, c3}
  None = None
SPECIFICATION Spec
INVARIANT FailsOnItsOwn
CHECK_DEADLOCK FALSE
