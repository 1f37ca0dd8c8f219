SPECIFICATION FairSpec
CONSTANTS
  MaxSeq = 2
  MaxLines = 1
  MaxReconnects = 2
  MaxDrops = 1
  MaxStates = 1
  MayPush = TRUE
  MayClose = TRUE
INVARIANTS ShownInOrder HolesAreNoticed NothingHeldBack
PROPERTIES EndIsLearned
\* A page may be done, and its deployment over.
CHECK_DEADLOCK FALSE
