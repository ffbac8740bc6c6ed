SPECIFICATION MCSpec
CONSTANTS
  Parts = {"console"}
  Simple <- MCSimple
  Machines <- MCMachines
  MaxScans = 2
  Apps <- MCApps
  Lists <- MCLists
INVARIANT
  OnlyACleanCopyArms
CHECK_DEADLOCK FALSE
