SPECIFICATION Spec
CONSTANTS
  Procs = {p1, p2}
  Deployments = {d1}
  MaxEnds = 2
  Nobody = nobody
  Faults = {"live", "register", "docker", "records", "remove", "save", "own", "unregister"}
INVARIANTS OrphansSwept RecordsSettled RegisteredAreSpared ClosedIsClean
\* Every process that was started may have ended.
CHECK_DEADLOCK FALSE
