SPECIFICATION MCSpec
CONSTANTS
  Parts = {"console"}
  Simple <- MCSimple
  Machines <- MCMachines
  MaxScans = 2
  Apps <- MCApps
  Lists <- MCLists
PROPERTY
  RemovesWhatIsSelected
CHECK_DEADLOCK FALSE
