SPECIFICATION FairSpec
CONSTANTS
  NumServices = 2
  NumDbs = 1
  Shared = TRUE
  MaxExtras = 1
  MaxFaults = 1
INVARIANTS NothingKeepsRunning InstallsTakeTurns ReusedIsInstalled
PROPERTIES LaunchEnds StopReleases
\* A launch may be over.
CHECK_DEADLOCK FALSE
