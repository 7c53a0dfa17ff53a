SPECIFICATION Spec
CONSTANTS
  KeepDay = 1
  NMeters = 1
  ClockJumps = FALSE
  FirstDay = 2
  LastDay = 3
  MaxFds = 3
PROPERTIES StartsAgain
