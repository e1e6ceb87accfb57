SPECIFICATION Spec
CONSTANTS
  NULL = NULL
  Ids = {e1, e2, e3}
  Delays = {0, 1, 2}
  RunTimeouts <- MCRunTimeouts
  MaxTimeout = 2
  MaxTime = 3
  END = 8
INVARIANT NearestTimeout
SYMMETRY Symmetry
\* The clock stops at MaxTime.
CHECK_DEADLOCK FALSE
