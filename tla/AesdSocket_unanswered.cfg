\* Is every complete line answered?
CONSTANTS
  NULL = NULL
  NL = NL
  SEEK = SEEK
  x = x
  SeekArgs <- MCSeekArgs
  BufferSize = 2
  Clients = {c1, c2}
  N = 2
  Chunks <- ShortLines
  MaxChunks = 1
  MaxSignals = 0
  MaxFds = 8
  Faults = {}
CHECK_DEADLOCK FALSE
SYMMETRY Symmetry
SPECIFICATION Spec
INVARIANT LinesAreAnswered
