\* Three threads on one mutex, a block for each; every call may fail.
CONSTANTS
  Threads = {t1, t2, t3}
  Blocks = {b1, b2, b3}
  NULL = NULL
  Faults = {"malloc", "create", "sleep", "lock", "unlock"}
CHECK_DEADLOCK FALSE
SPECIFICATION FairSpec
INVARIANTS HolderAccountable DataExact
PROPERTY StartedThreadsReturn
