SPECIFICATION Spec
CONSTANTS
  First = 5
  Last = 5
  LateReplies = TRUE
  EarlyStart = FALSE
  MaxPending = 1
  MaxRx = 1
INVARIANTS ReadsWhatWasAsked
