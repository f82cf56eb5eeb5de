\* A discard is posted during the preflight.
CONSTANTS
  NULL = NULL
  BrowserPhases <- MCBrowserPhases
  MountFailureHistory = 2
  Order <- OneSession
  Agents = {a1}
  Posts <- Undecided
  Replies <- Handled
  SlowPreflight = TRUE
  MaxSeq = 3
  MaxRestarts = 0
SPECIFICATION Spec
CHECK_DEADLOCK FALSE
INVARIANT DecisionIsDurable
