SPECIFICATION FairSpec
CONSTANTS
  NumSessions = 1
  Limit = 1
  MaxLaunches = 2
  Kinds = {"single", "project"}
  Enders = {"stop", "cancel"}
INVARIANTS
  TypeOK
  StoppedIsEnding
  OneDriver
  OneContainer
  ServingOwnsContainer
  NoLeak
PROPERTIES
  EndedStaysEnded
  StopCompletes
  EverySessionEnds
  BoundReleases
\* Every session may end.
CHECK_DEADLOCK FALSE
