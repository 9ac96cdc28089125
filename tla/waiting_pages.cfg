SPECIFICATION FairSpec
CONSTANTS
  Tabs = {"deployments", "pods"}
  MaxChanges = 2
  MaxAttempts = 2
  Requests = {"a", "b"}
  MaxActs = 2
  MaxWindows = 1
  MaxRuns = 2
  PoolSize = 1
  MaxOut = 2
  MaxClicks = 2
  MaxFailures = 1
INVARIANTS
  PagesTypeOK
  WaitsAreAsked
  EndsAreTrue
PROPERTIES
  OvertakenLoses
  WaitsEnd
CHECK_DEADLOCK FALSE
