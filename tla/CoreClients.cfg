\* Two tabs, three sessions, one of which may be a lazy candidate; drivers may throw.
CONSTANTS
  NULL = NULL
  t1 = t1
  t2 = t2
  Tabs = {t1, t2}
  MaxRuns = 3
  Runs <- MCRuns
  Ids <- MCRuns
  Requests <- MCRuns
  MaxAsks = 1
  Share <- MCShare
  MaxGen <- MCMaxGen
  MayThrow = TRUE
SPECIFICATION FairSpec
CHECK_DEADLOCK FALSE
INVARIANTS
  ClientTypeOK
  OwnSnapshot
  AnsweredOnce
  TurnIsReachable
  NoOrphanHoldsTheCore
  ReportIsDrawn
PROPERTY EverySessionSettles
