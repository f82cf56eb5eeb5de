\* Decisions in every order, fair threads and agents.
CONSTANTS
  NULL = NULL
  BrowserPhases <- MCBrowserPhases
  MountFailureHistory = 2
  Order <- OneSession
  Agents = {a1, a2}
  Posts <- Contested
  Replies <- Settling
  SlowPreflight = TRUE
  MaxSeq = 2
  MaxRestarts = 1
SPECIFICATION FairSpec
CHECK_DEADLOCK FALSE
PROPERTIES
  DecisionSettles
  RetiredStaysRetired
