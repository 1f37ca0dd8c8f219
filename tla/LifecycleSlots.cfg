SPECIFICATION Spec
CONSTANTS
  NumSessions = 2
  Limit = 1
  MaxLaunches = 1
  Kinds = {"single"}
  Enders = {}
INVARIANTS
  SlotLimit
PROPERTIES
  LeasesAreKept
\* Every session may end.
CHECK_DEADLOCK FALSE
