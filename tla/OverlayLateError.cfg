\* An accept fails after the next session has begun.
CONSTANTS
  MaxSessions = 2
  MaxClicks = 1
  MaxAccidents = 0
  MaxAtOnce = 0
  Annotated = FALSE
  Compiled = {}
SPECIFICATION Spec
CHECK_DEADLOCK FALSE
INVARIANTS
  SessionHasBar
