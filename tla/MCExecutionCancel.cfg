SPECIFICATION MCSpec
CONSTANTS
  Fronts = {"tui"}
  Plans <- MCPlans
  Positions <- MCPositions
  Sessions = {1}
  Runs <- MCRuns
PROPERTY
  CancelStopsEveryRun
CHECK_DEADLOCK FALSE
