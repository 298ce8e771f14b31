\* Three calls, each of any function, in which everything may fail.
CONSTANTS
  Calls = {c1, c2, c3}
  NULL = NULL
  Faults = {"open", "fork", "dup2", "execv", "waitpid", "system"}
CHECK_DEADLOCK FALSE
SPECIFICATION Spec
INVARIANTS TrueIffExecuted OutputIsCommands
