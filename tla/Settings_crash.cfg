SPECIFICATION Spec
CONSTANTS
  Fields = {"user", "url", "days"}
  HasDefault = {"url", "days"}
  Chosen = {"a", "b"}
  MaxFds = 3
INVARIANTS TypeOK AckedSurvives NeverKeepZero NoCloudIsShown
