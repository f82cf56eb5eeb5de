\* The helper on a disk that fills up.
CONSTANTS
  NULL = NULL
  BrowserPhases <- MCBrowserPhases
  MountFailureHistory = 1
  Writers = {w1, w2}
  Events <- FewEvents
  Exclusive = TRUE
  WriteFaults = TRUE
  MaxWrites = 3
SPECIFICATION Spec
SYMMETRY Workers
CHECK_DEADLOCK FALSE
INVARIANTS
  RequestIsPending
  CanceledIsNeverRepublished
