SPECIFICATION MCSpec
CONSTANTS
  Fronts = {"cli", "tui"}
  Plans <- MCPlans
  Positions <- MCPositions
  Sessions = {1, 2}
  Runs <- MCRuns
INVARIANTS
  TypeOK
  StepsTakeTurns
  ToldAsItHappened
  SessionTypeOK
  ReportIsTrue
  BegunInPlanOrder
  KeepaliveDiesWithScript
PROPERTIES
  PromptsFromTheTerminal
  RunsThePlan
  Terminates
  CancelStopsTheRun
  SessionEnds
CHECK_DEADLOCK FALSE
