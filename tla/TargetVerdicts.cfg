\* Two pages, two requests, one after the other or together; one answer is remembered.
CONSTANTS
  Pages = {a, b}
  NULL = NULL
  MaxTargets = 2
  MaxRecord = 1
  MaxConns = 2
  MaxGo = 2
SPECIFICATION Spec
INVARIANTS
  TypeOK
  SessionsAreTold
  NoStuckRollCall
PROPERTIES
  RollCallUnanimous
  KeepsPromise
SYMMETRY PageSymmetry
