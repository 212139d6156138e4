SPECIFICATION Spec
CONSTANTS
  Requests = {r1, r2}
  Pool = 1
INVARIANT ErrorsLoggedWithId
CHECK_DEADLOCK FALSE
