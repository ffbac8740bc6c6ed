SPECIFICATION MCSpec
CONSTANTS
  Parts = {"board"}
  Simple <- MCSimple
  Machines <- MCEverything
  MaxScans = 2
  Apps <- MCApps
  Lists <- MCLists
INVARIANT
  OnlyTheCheckedAreWell
CHECK_DEADLOCK FALSE
