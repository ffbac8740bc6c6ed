SPECIFICATION MCSpec
CONSTANTS
  Parts = {"list"}
  Simple <- MCSimple
  Machines <- MCMachines
  MaxScans = 2
  Apps <- MCApps
  Lists <- MCLists
INVARIANT
  SelectedRowInWindow
CHECK_DEADLOCK FALSE
