\* An annotated Go while the stream reconnects.
CONSTANTS
  MaxSessions = 1
  MaxClicks = 0
  MaxAccidents = 1
  MaxAtOnce = 1
  Annotated = TRUE
  Compiled = {}
SPECIFICATION Spec
CHECK_DEADLOCK FALSE
INVARIANTS
  CapturedIsKept
