\* Two scans over two documents, DevTools once, one end of the worker.
CONSTANTS
  NULL = NULL
  MaxScans = 2
  MaxDocs = 2
  MaxOpens = 1
  MaxRestarts = 1
  MayFail = TRUE
SPECIFICATION FairSpec
CHECK_DEADLOCK FALSE
INVARIANTS
  TypeOK
  ReportOfThisPage
  ScanningIsTrue
  TearDownSparesNewScans
  CompletionIsHeard
PROPERTIES
  ScanSettles
