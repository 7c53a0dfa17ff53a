SPECIFICATION FairSpec
CONSTANTS
  Users = {"admin"}
  MaxEvents = 15
  PerPage = 2
  MaxOverdue = 1
  MaxCloses = 0
INVARIANTS TypeOK TableMatchesLabel PagerShowsGaps PageRemembered
PROPERTIES EditsKept SaveComesToRest
