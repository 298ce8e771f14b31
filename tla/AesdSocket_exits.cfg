\* Does the server leave its accept loop only for a signal?
CONSTANTS
  NULL = NULL
  NL = NL
  SEEK = SEEK
  x = x
  SeekArgs <- MCSeekArgs
  BufferSize = 2
  Clients = {c1, c2}
  N = 2
  Chunks <- ShortLines
  MaxChunks = 1
  MaxSignals = 1
  MaxFds = 5
  Faults = {}
CHECK_DEADLOCK FALSE
SYMMETRY Symmetry
SPECIFICATION Spec
INVARIANT ExitsOnlyOnSignal
