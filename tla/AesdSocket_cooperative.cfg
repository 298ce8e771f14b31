\* Two clients that send or close in the end and compete for the mutex, and a signal at any moment.
CONSTANTS
  NULL = NULL
  NL = NL
  SEEK = SEEK
  x = x
  SeekArgs <- MCSeekArgs
  BufferSize = 2
  Clients = {c1, c2}
  N = 1
  Chunks <- ShortLines
  MaxChunks = 1
  MaxSignals = 1
  MaxFds = 5
  Faults = {"write", "create"}
CHECK_DEADLOCK FALSE
SPECIFICATION CooperativeSpec
INVARIANT AllJoined
PROPERTY ShutdownCompletes
