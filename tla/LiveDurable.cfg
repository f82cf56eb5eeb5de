\* Requests of two sessions survive restarts, with two agents at work.
CONSTANTS
  NULL = NULL
  BrowserPhases <- MCBrowserPhases
  MountFailureHistory = 2
  Order <- TwoSessions
  Agents = {a1, a2}
  Posts <- Decided
  Replies <- Handled
  SlowPreflight = FALSE
  MaxSeq = 3
  MaxRestarts = 1
SPECIFICATION Spec
CHECK_DEADLOCK FALSE
SYMMETRY AgentSymmetry
INVARIANTS
  TypeOK
  UnackedIsDurable
  AnsweredIsNotPending
