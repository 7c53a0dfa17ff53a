SPECIFICATION Spec
CONSTANTS
  First = 1
  Last = 2
  LateReplies = TRUE
  EarlyStart = FALSE
  MaxPending = 1
  MaxRx = 1
INVARIANTS TypeOK HandleOwned OwnBlock NormIsEarned UnscaledOnlyAtFirst
