SPECIFICATION MCFairSpec
CONSTANTS
  Parts <- MCParts
  Simple <- MCSimple
  Machines <- MCMachines
  MaxScans = 2
  Apps <- MCApps
  Lists <- MCLists
INVARIANTS
  BoardTypeOK
  RowsAreOfOneScan
  BoardIsHonest
  TypeOK
  RemovalFollowsItsCopy
  QuitSparesTheRun
  CommandIsHeeded
  ScreensAreTrue
PROPERTIES
  FinalOnceCounted
  ScanEnds
CHECK_DEADLOCK FALSE
