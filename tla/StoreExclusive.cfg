\* The helper's threads: one mutex, whole writes.
CONSTANTS
  NULL = NULL
  BrowserPhases <- MCBrowserPhases
  MountFailureHistory = 1
  Writers = {w1, w2}
  Events <- MCEvents
  Exclusive = TRUE
  WriteFaults = FALSE
  MaxWrites = 4
SPECIFICATION Spec
SYMMETRY Workers
CHECK_DEADLOCK FALSE
INVARIANTS
  TypeOK
  TrustedSnapshotIsReplay
  SeqsAreDense
  AckedIsJournaled
