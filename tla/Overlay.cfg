\* Two sessions, two accidents when calm and one otherwise.
CONSTANTS
  MaxSessions = 2
  MaxAccidents = 2
  MaxAtOnce = 1
  MaxClicks = 1
  Annotated = TRUE
  Compiled = {2}
SPECIFICATION FairSpec
CHECK_DEADLOCK FALSE
INVARIANTS
  TypeOK
  HandledIsLeft
  KeptWhenCalm
PROPERTIES
  CompletedArrives
