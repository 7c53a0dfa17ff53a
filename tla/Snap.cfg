SPECIFICATION FairSpec
CONSTANTS
  KeepDay = 1
  NMeters = 2
  ClockJumps = TRUE
  FirstDay = 2
  LastDay = 4
  MaxFds = 5
INVARIANTS TypeOK RowsHaveAFile RetentionHolds OneLateSnapshot
PROPERTIES ArchiveKept KeepsRecording
