SPECIFICATION FairSpec
CONSTANTS
  First = 3
  Last = 4
  LateReplies = FALSE
  EarlyStart = TRUE
  MaxPending = 1
  MaxRx = 1
PROPERTIES WholeSamples ResetTaken StaleNoticed NoMeterStarved
