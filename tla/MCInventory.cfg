SPECIFICATION MCSpec
CONSTANTS
  Leaves <- MCLeaves
  Mappings <- MCMappings
  Names = {"options"}
  Contents = {"old", "new"}
  Disks <- MCDisks
  Scans <- MCScans
  Processes = {"tui", "old"}
  Builds <- MCBuilds
  Ttl = 1
  Inputs = {"db"}
  MaxTime = 2
INVARIANTS
  TypeOK
  BackupsHold
  CacheIsWhole
  ScanIsTrue
  
PROPERTIES
  CleanCopyIsComplete
  HitIsCurrent
CHECK_DEADLOCK FALSE
