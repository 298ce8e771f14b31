\* Runs of up to four files, one after the other, each of which may end early.
CONSTANTS
  NULL = NULL
  MaxFiles = 4
  Faults = {"mkdir", "open", "write", "short", "interrupt"}
SPECIFICATION Spec
INVARIANTS SuccessMeansWritten FailureMeansMissing
