CONSTANTS
  Aps = {a1, a2}
  NumPages = 2
  SHOOTDOWN_MAX_PAGES = 1
  MaxCalls = 2
SPECIFICATION Spec
INVARIANTS
  CompleteIsTrue
  NothingStaleBetweenCalls
PROPERTY
  LastCallReachesAll
CHECK_DEADLOCK FALSE
