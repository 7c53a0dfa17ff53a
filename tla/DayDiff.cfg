SPECIFICATION Spec
CONSTANTS
  FirstYear = 1999
  LastYear = 2401
INVARIANTS DiffCountsDays
CHECK_DEADLOCK FALSE
