\* Three clients, so that a descriptor number can be reused between its two closes.
CONSTANTS
  NULL = NULL
  NL = NL
  SEEK = SEEK
  x = x
  SeekArgs <- MCSeekArgs
  BufferSize = 2
  Clients = {c1, c2, c3}
  N = 1
  Chunks <- ShortLines
  MaxChunks = 1
  MaxSignals = 0
  MaxFds = 6
  Faults = {"create", "send", "sigpipe"}
CHECK_DEADLOCK FALSE
SYMMETRY Symmetry
SPECIFICATION Spec
INVARIANT EntriesOutliveThreads
