\* Three further processors, one of them disabled.
SPECIFICATION Spec
CONSTANTS
  Hw = {0, 1, 2, 3}
  Disabled = {2}
  Bsps = {0, 1}
  None = 99
INVARIANT ContextsAreScheduled
CHECK_DEADLOCK FALSE
