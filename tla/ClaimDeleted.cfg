SPECIFICATION Spec
CONSTANTS
  NumIds = 1
  MaxChanges = 4
  MaxCrashes = 0
  Keep = 1
  Retain = 1
  Enders = {"stop"}
  WritesFail = FALSE
INVARIANTS DeletedStaysDeleted
\* Every deployment may have ended.
CHECK_DEADLOCK FALSE
