SPECIFICATION MCSpec
CONSTANTS
  Parts = {"board"}
  Simple <- MCSimple
  Machines <- MCMachines
  MaxScans = 2
  Apps <- MCApps
  Lists <- MCLists
INVARIANT
  AurCarriedIsOld
CHECK_DEADLOCK FALSE
