SPECIFICATION Spec
CONSTANTS
  NumIds = 2
  MaxChanges = 3
  MaxCrashes = 1
  Keep = 1
  Retain = 1
  Enders = {"stop", "abandon"}
  WritesFail = TRUE
INVARIANTS OneWriterPerRecord DiskCatchesUp ForgottenWritesAreOver NothingClaimsToRun RecordsAreKept
PROPERTIES RecordsMoveForward
\* Every deployment may have ended.
CHECK_DEADLOCK FALSE
