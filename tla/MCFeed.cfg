SPECIFICATION FairSpec
CONSTANTS
  Rows = {1, 2}
  PageSize = 1
  Progress = {2}
  MaxOthers = 1
  MaxClicks = 1
  MaxFaults = 1
INVARIANTS TypeOK QuietIsFresh
PROPERTY EventuallyFresh
CHECK_DEADLOCK FALSE
